---- MODULE Spec2Model ----
(***************************************************************************)
(* A model of the storage backbone of yeet-yoink: the shared temporary     *)
(* file (one writer, many readers), the digesting FileWriter, the          *)
(* FileWriterGuard, the FileRecord lifecycle task and the Backbone command *)
(* loop.                                                                   *)
(*                                                                         *)
(* The specifications share the variables:                                 *)
(*   Spec      the program: do_yeet drives a FileWriterGuard obtained from *)
(*             Backbone::new_file; the record's lifecycle task, the        *)
(*             command loop and the dispatcher's receive run beside it;    *)
(*             FileReaders are obtained from Backbone::get_file. What a    *)
(*             reader then does is left to SpecFile: it changes only rd    *)
(*             and wakers, which nothing else in Spec reads.               *)
(*   SpecFile  the shared temporary file on its own: a client drives the   *)
(*             AsyncWrite interface of SharedTemporaryFileWriter           *)
(*             (poll_write, poll_flush, poll_shutdown, complete, drop) and *)
(*             readers obtained from SharedTemporaryFile::reader poll it.  *)
(*   SpecWriters  the file's writer and further calls of writer().         *)
(*   SpecRead  Spec with uploads that carry no headers and with the        *)
(*             consumers of the FileReaders polling and dropping them.     *)
(*   SpecMain  main from Backbone::new to the end of the shutdown          *)
(*             rendezvous: one upload is served, the dispatcher calls      *)
(*             every backend, a backend asks the FileAccessorBridge for    *)
(*             the file, the loops exit and release their guards.          *)
(*   SpecBridge  SpecMain with a further holder of the accessor calling    *)
(*             get_file at any moment, also before set_backbone.           *)
(*   SpecLock  an upload cancelled at once and get_file calls that hold    *)
(*             the read lock of the registry while they send on the        *)
(*             backbone channel, which has its real capacity.              *)
(*   SpecCycle  the command loop and the dispatcher with both channels     *)
(*             at their real capacities, a backend calling get_file.       *)
(*   SpecAgain  the id of a record that was removed is admitted again.     *)
(*   SpecHost  the HTTP hosting: host_on_addresses, the accept loops,      *)
(*             the connection handlers and the shutdown signal, with       *)
(*             serve_requests waiting for the signal and main sending      *)
(*             it on. Only `host` changes in it.                           *)
(* In Spec, SpecFile and the specifications built on Spec the variables of *)
(* main stay as they are while the servers run.                            *)
(* FairMain and FairHost are SpecMain and SpecHost with the fairness of    *)
(* the tasks that run in them.                                             *)
(* FairSpec is Spec with the fairness of the spawned tasks; SpecTimed is   *)
(* Spec with time passing at any moment (in Spec the clock moves only when *)
(* the lease's timer fires); SpecCollide is Spec with a second new_file    *)
(* call that presents the id of the registered record.                     *)
(*                                                                         *)
(* The operating system's file is `disk`, the sequence of bytes handed to  *)
(* it. tokio's file handle is modelled by its contract: a write accepts    *)
(* 1..len bytes of a non-empty buffer or fails; a read is started by one   *)
(* poll (which returns Pending while the blocking pool works) and          *)
(* delivered by a later poll (Ready), taking effect when delivered; a read *)
(* that finds no byte past the handle's cursor delivers zero bytes, which  *)
(* is end-of-stream for the consumer of an AsyncRead. Reads of the disk do *)
(* not fail.                                                               *)
(***************************************************************************)
EXTENDS Integers, Sequences, FiniteSets, TLC

\* ------------------------------------------------------------------ bounds

\* The most bytes a request body (Spec) or a writer client (SpecFile) offers.
MaxBody == 2
\* The most bytes one read of a reader's file handle returns.
ReadBufSize == 1
\* The number of readers (SpecFile) and of get_file requests (Spec).
NumReaders == 2
\* The most leases' worth of time that passes apart from the lease's
\* timer (SpecTimed).
MaxTicks == 1
\* The most further calls of SharedTemporaryFile::writer() on a file that has
\* its writer (SpecWriters).
MaxWriterCalls == 1
\* The number of get_file requests whose FileReader is polled by its consumer
\* (SpecRead); the readers of the other requests are held unread.
NumPolled == 1
\* The number of registered backends (SpecMain).
NumBackends == 2
\* The most get_file calls a holder of the accessor other than the dispatcher
\* makes (SpecBridge).
MaxClientCalls == 1
\* The addresses the service is hosted on, the connections clients open and
\* the shutdown signals sent from outside main (SpecHost).
NumListeners == 2
NumConns == 2
MaxSignals == 1

\* ------------------------------------------------------- program constants

\* mpsc::channel(1024) of the backbone command loop.
BackboneChannelCapacity == 1024
\* EVENT_BUFFER_SIZE, the capacity of the dispatcher's channel.
EventBufferSize == 64
\* TEMPORAL_LEASE, in seconds.
TEMPORAL_LEASE == 10

\* --------------------------------------------------------------- universes

Min(a, b) == IF a <= b THEN a ELSE b

Bytes == {1, 2}
Readers == 1 .. NumReaders
PolledReaders == 1 .. Min(NumPolled, NumReaders)
\* The one file identifier of a run (ShortGuid::new_random()).
FileId == 1

RECURSIVE SeqsOfLen(_)
SeqsOfLen(n) ==
    IF n = 0 THEN {<<>>}
    ELSE {Append(s, b) : s \in SeqsOfLen(n - 1), b \in Bytes}

SeqsUpTo(n) == UNION {SeqsOfLen(k) : k \in 0 .. n}

IsPrefix(s, t) == Len(s) <= Len(t) /\ SubSeq(t, 1, Len(s)) = s

\* Option<T>
None == [some |-> FALSE, v |-> 0]
Some(x) == [some |-> TRUE, v |-> x]

VARIABLES
    disk,        \* the bytes of the backing file, in file order
    state,       \* Sentinel.state: [tag, n]
    wakers,      \* Sentinel.wakers: the reader ids holding a registered waker
    writer,      \* the SharedTemporaryFileWriter handle: "none" | "live"
                 \* | "completed" (consumed by a complete that returned Ok)
                 \* | "gone" (dropped, or consumed by a failed complete)
    offered,     \* number of bytes the writing client has offered so far
    rd,          \* the readers: [Readers -> [st, pos, got, summary]]
    guard,       \* FileWriterGuard
    fw,          \* FileWriter: the hashers' input so far and file_size
    yeet,        \* do_yeet: [pc, data, result, summary, sync_failed, detail]
    channel,     \* every WriteResult sent on the record's one-shot channel
    rec,         \* FileRecord: Inner {file, summary} and the lifecycle task
    open,        \* Backbone Inner.open: the registered ids
    commands,    \* the backbone command channel
    backendQueue,\* the dispatcher's channel
    dispatched,  \* the BackendCommands the dispatcher has received
    now,         \* tokio's clock (Instant::now()), in seconds
    second,      \* the outcome of a second new_file call with the same id
    handles,     \* further calls of writer() on the file: [calls, live], the
                 \* calls made and the write handles they returned that are live
    mainPc,      \* main: its position
    holders,     \* the holders of a strong reference (Arc) to the Backbone
    weak,        \* FileAccessorBridge.backbone: "unset" (Weak::new()) | "set"
    call,        \* the FileAccessorBridge::get_file call in flight: [pc, by, result]
    disp,        \* BackendRegistry::handle_events: [pc, cmd, idx]
    invocations, \* the distribute_file calls that returned, in order
    loopPc,      \* Backbone::command_loop: "none" | "running" | "exited", and in
                 \* SpecLock and SpecCycle "write_lock" | "sending"
    loopCmd,     \* the command the loop received and is sending on (SpecCycle)
    host,        \* the HTTP hosting: [pc, rx, accept, handlers, signals, guards]
    guards,      \* the rendezvous guards that are outstanding
    released,    \* how often each loop has called completed() on its guard
    checked      \* the strong count main found in shut_down_backbone; 0: not yet

fileVars == <<disk, state, wakers, writer, offered>>
shutVars == <<mainPc, holders, weak, call, disp, invocations, loopPc, loopCmd, host, guards,
              released, checked>>
progVars == <<guard, fw, yeet, channel, rec, open, commands, backendQueue, dispatched,
              now, second, handles, mainPc, holders, weak, call, disp, invocations,
              loopPc, loopCmd, host, guards, released, checked>>
vars == <<disk, state, wakers, writer, offered, rd, guard, fw, yeet, channel, rec,
          open, commands, backendQueue, dispatched, now, second, handles, mainPc,
          holders, weak, call, disp, invocations, loopPc, loopCmd, host, guards, released,
          checked>>

\* ------------------------------------------------- the shared temporary file

\* enum State
Pending(n) == [tag |-> "Pending", n |-> n]
Completed(n) == [tag |-> "Completed", n |-> n]
Failed == [tag |-> "Failed", n |-> 0]

\* SharedTemporaryFileWriter::finalize_state: [ok, state].
FinalizeState(st) ==
    CASE st.tag = "Pending" -> [ok |-> TRUE, state |-> Completed(st.n)]
      [] st.tag = "Completed" -> [ok |-> TRUE, state |-> st]
      [] OTHER -> [ok |-> FALSE, state |-> st]

\* SharedTemporaryFileWriter::update_state: [ok, err, state], err the
\* ErrorKind of the error returned.
UpdateState(st, written) ==
    CASE st.tag = "Pending" ->
            [ok |-> TRUE, err |-> "none", state |-> Pending(st.n + written)]
      [] st.tag = "Completed" ->
            [ok |-> written = 0,
             err |-> IF written = 0 THEN "none" ELSE "BrokenPipe",
             state |-> st]
      [] OTHER -> [ok |-> FALSE, err |-> "Other", state |-> st]

\* The result of the file handle's poll_write for a buffer: Ok(n) or Err.
\* A non-empty buffer is accepted in part or whole; an empty one writes nothing.
WriteOutcomes(buf) ==
    {[ok |-> TRUE, n |-> n] : n \in (IF Len(buf) = 0 THEN {0} ELSE 1 .. Len(buf))}
        \cup {[ok |-> FALSE, n |-> 0]}

\* Mutant of DiskAfterWrite: the writer's handle truncates the file on a write.
DiskAfterWrite_Truncates(d, buf, res) ==
    IF res.ok THEN SubSeq(buf, 1, res.n) ELSE d

\* The backing file after the handle's poll_write(buf) returned `res`: the
\* accepted bytes are appended at the writer's cursor, the end of the file.
DiskAfterWrite(d, buf, res) ==
    IF res.ok THEN d \o SubSeq(buf, 1, res.n) ELSE d

\* SharedTemporaryFileWriter::handle_poll_write_result for Poll::Ready(res):
\* [ok, err, n, state]; "Io" is the file's own error, passed on. The readers
\* are woken in every Ready case.
HandlePollWriteResult(st, res) ==
    IF res.ok
    THEN LET u == UpdateState(st, res.n)
         IN  [ok |-> u.ok, err |-> u.err, n |-> IF u.ok THEN res.n ELSE 0,
              state |-> u.state]
    ELSE [ok |-> FALSE, err |-> "Io", n |-> 0, state |-> Failed]

\* PinnedDrop for SharedTemporaryFileWriter: finalize_state().ok().
WriterDropState(st) == FinalizeState(st).state

\* SharedTemporaryFileWriter::complete / complete_no_sync: [ok, state].
\* complete returns the sync_all error before finalize_state; the writer is
\* consumed either way, so its drop runs finalize_state as well.
Complete(st, sync, syncOk) ==
    IF sync /\ ~syncOk
    THEN [ok |-> FALSE, state |-> WriterDropState(st)]
    ELSE LET f == FinalizeState(st)
         IN  [ok |-> f.ok, state |-> WriterDropState(f.state)]

\* AsyncWrite::poll_flush: the state after Ready(Ok) / Ready(Err).
PollFlushState(st, ok) == IF ok THEN st ELSE Failed

\* AsyncWrite::poll_shutdown: the state after Ready(Ok) / Ready(Err).
PollShutdownState(st, ok) ==
    IF ok THEN (IF st.tag = "Pending" THEN Completed(st.n) ELSE st) ELSE Failed

\* SharedTemporaryFileReader::file_size
FileSize(st) ==
    CASE st.tag = "Pending" -> [kind |-> "AtLeast", n |-> st.n]
      [] st.tag = "Completed" -> [kind |-> "Exactly", n |-> st.n]
      [] OTHER -> [kind |-> "Error", n |-> 0]

\* ------------------------------------------------------------------ readers

NoSummary == [some |-> FALSE, expires |-> 0, md5 |-> 0, sha256 |-> 0, file_size_bytes |-> 0]

\* A reader slot before SharedTemporaryFile::reader / Backbone::get_file.
\*   st:  "unopened" | "idle" | "busy" (a read is in flight, the poll pending)
\*        | "eof" (the consumer was given end-of-stream) | "closed" (dropped)
\*        | "expired" | "unknown" (get_file failed)
\*   pos: the cursor of the reader's own file handle
\*   got: every byte the consumer has received, in order
NewReader == [st |-> "unopened", pos |-> 0, got |-> <<>>, summary |-> NoSummary]

\* SharedTemporaryFile::reader: a handle opened read-only at offset 0.
OpenReader(summary) == [NewReader EXCEPT !.st = "idle", !.summary = summary]

\* The readers that hold a SharedTemporaryFileReader.
LiveReaders == {r \in Readers : rd[r].st \in {"idle", "busy", "eof"}}

\* Mutant of SentinelRefs: the readers hold no reference to the sentinel.
SentinelRefs_ReadersBorrow ==
    (IF rec.file THEN 1 ELSE 0) + (IF writer = "live" THEN 1 ELSE 0) + handles.live

\* The strong count of Arc<Sentinel>: the record's SharedTemporaryFile, every
\* live writer and every live reader hold a clone.
SentinelRefs ==
    (IF rec.file THEN 1 ELSE 0) + (IF writer = "live" THEN 1 ELSE 0) + handles.live
        + Cardinality(LiveReaders)

\* The content of the backing file: Sentinel.original is the TempFile, which
\* is deleted when the sentinel is dropped with its last reference.
BackingFile == IF SentinelRefs > 0 THEN disk ELSE <<>>

\* What a read of the handle at `pos` returns: the bytes past the cursor, at
\* most ReadBufSize of them; none at the end of the file.
ReadAt(d, pos) == SubSeq(d, pos + 1, Min(Len(d), pos + ReadBufSize))

\* Sentinel::register_reader_waker
RegisterReaderWaker(w, id) == w \cup {id}

\* Mutant of RemoveReaderWaker: the entry stays in the map.
RemoveReaderWaker_Keeps(w, id) == w

\* Sentinel::remove_reader_waker
RemoveReaderWaker(w, id) == w \ {id}

\* Sentinel::wake_readers: the map is drained.
WakeReaders(w) == {}

\* poll_read, the file handle returns Poll::Pending: the read is started (or
\* still in flight after a wake-up) and the reader's waker is registered.
ReaderPollPending(r) ==
    /\ rd[r].st \in {"idle", "busy"}
    /\ rd[r].st = "busy" => r \notin wakers
    /\ rd' = [rd EXCEPT ![r].st = "busy"]
    /\ wakers' = RegisterReaderWaker(wakers, r)
    /\ UNCHANGED <<disk, state, writer, offered>>
    /\ UNCHANGED progVars

\* poll_read, the file handle returns Poll::Ready(Ok): the waker is removed
\* and the bytes read are the consumer's; zero bytes are its end-of-stream.
ReaderPollReady(r) ==
    /\ rd[r].st = "busy"
    /\ LET data == ReadAt(BackingFile, rd[r].pos)
       IN  rd' = [rd EXCEPT ![r].st = IF Len(data) = 0 THEN "eof" ELSE "idle",
                            ![r].pos = @ + Len(data),
                            ![r].got = @ \o data]
    /\ wakers' = RemoveReaderWaker(wakers, r)
    /\ UNCHANGED <<disk, state, writer, offered>>
    /\ UNCHANGED progVars

\* PinnedDrop for SharedTemporaryFileReader
ReaderDrop(r) ==
    /\ rd[r].st \in {"idle", "busy", "eof"}
    /\ rd' = [rd EXCEPT ![r] = [NewReader EXCEPT !.st = "closed"]]
    /\ wakers' = RemoveReaderWaker(wakers, r)
    /\ UNCHANGED <<disk, state, writer, offered>>
    /\ UNCHANGED progVars

\* ------------------------------------------- SpecFile: the file on its own

NoGuard == [live |-> FALSE, inner |-> FALSE, sender |-> FALSE, expiration |-> 0,
            file_size |-> 0, expected_size |-> None, expected_content_md5 |-> None]
NoWriter == [md5 |-> <<>>, sha256 |-> <<>>, file_size |-> 0]
\* The two lengths of an error, for a result that is not InvalidFileLength.
NoDetail == [expected |-> 0, got |-> 0]
\* FileRecord and its lifecycle task: Inner {file, summary}, created, the
\* task's position, the summary it received, and the deadline of its sleep.
NoRecord == [file |-> FALSE, summary |-> NoSummary, pc |-> "none",
             result |-> NoSummary, created |-> 0, sleep_until |-> 0]
\* do_yeet: its position, the unwritten rest of the current chunk, its outcome,
\* the summary finalize returned, and whether finalize's sync_all failed.
NoYeet == [pc |-> "none", data |-> <<>>, result |-> "none", summary |-> NoSummary,
           sync_failed |-> FALSE, detail |-> NoDetail]

\* No call of writer() beyond the one that made `writer`.
NoHandles == [calls |-> 0, live |-> 0]

\* The owners of a rendezvous guard: the dispatcher (BackendRegistry) and the
\* backbone command loop.
GuardOwners == {"registry", "backbone"}

\* No BackendCommand.
NoCommand == [cmd |-> "none", id |-> 0, summary |-> NoSummary]
\* No FileAccessorBridge::get_file call in flight.
NoCall == [pc |-> "none", by |-> "none", result |-> "none"]
\* handle_events awaiting receiver.recv().
DispIdle == [pc |-> "recv", cmd |-> NoCommand, idx |-> 0]

Listeners == 1 .. NumListeners
Conns == 1 .. NumConns

\* A broadcast::Receiver: whether it exists and whether a value waits in it.
NoReceiver == [sub |-> FALSE, sig |-> FALSE]
\* Sender::subscribe(): the receiver sees the values sent from now on.
Subscribe == [sub |-> TRUE, sig |-> FALSE]

\* The hosting at main.rs:74: the channel of the shutdown signal exists with
\* no receiver, the handler of the OS signal holds a Sender, no listener is
\* bound. `bound` counts the listeners host_on_addresses has bound, `guards`
\* holds the forks of the rendezvous guard that are outstanding.
HostInit ==
    [pc |-> "bind", bound |-> 0, rx |-> NoReceiver,
     accept |-> [l \in Listeners |-> [pc |-> "none", rx |-> NoReceiver, conn |-> 0]],
     handlers |-> [c \in Conns |-> [pc |-> "none", rx |-> NoReceiver]],
     signals |-> 0, guards |-> {<<"host", 0>>}]

\* main at serve_requests (main.rs:100): the dispatcher and the command loop
\* run, main and the servers' AppState hold the Backbone, the bridge is set.
InitServing ==
    /\ mainPc = "serving"
    /\ holders = {"main", "app_state"}
    /\ weak = "set"
    /\ call = NoCall
    /\ disp = DispIdle
    /\ invocations = <<>>
    /\ loopPc = "running"
    /\ loopCmd = NoCommand
    /\ host = HostInit
    /\ guards = GuardOwners
    /\ released = [g \in GuardOwners |-> 0]
    /\ checked = 0

\* SharedTemporaryFile::new, then writer(): Pending(0), one writer handle.
InitFile ==
    /\ disk = <<>>
    /\ state = Pending(0)
    /\ wakers = {}
    /\ writer = "live"
    /\ offered = 0
    /\ rd = [r \in Readers |-> NewReader]
    /\ guard = NoGuard
    /\ fw = NoWriter
    /\ yeet = NoYeet
    /\ channel = <<>>
    /\ rec = NoRecord
    /\ open = {}
    /\ commands = <<>>
    /\ backendQueue = <<>>
    /\ dispatched = <<>>
    /\ now = 0
    /\ second = "none"
    /\ handles = NoHandles
    /\ InitServing

\* SharedTemporaryFile::reader
FileOpenReader(r) ==
    /\ rd[r].st = "unopened"
    /\ rd' = [rd EXCEPT ![r] = OpenReader(NoSummary)]
    /\ UNCHANGED fileVars
    /\ UNCHANGED progVars

\* AsyncWrite::poll_write returning Ready
WriterPollWrite(buf, res) ==
    /\ writer = "live"
    /\ offered + Len(buf) <= MaxBody
    /\ res \in WriteOutcomes(buf)
    /\ offered' = offered + Len(buf)
    /\ disk' = DiskAfterWrite(disk, buf, res)
    /\ state' = HandlePollWriteResult(state, res).state
    /\ wakers' = WakeReaders(wakers)
    /\ UNCHANGED <<writer, rd>>
    /\ UNCHANGED progVars

\* AsyncWrite::poll_flush returning Ready
WriterPollFlush(ok) ==
    /\ writer = "live"
    /\ state' = PollFlushState(state, ok)
    /\ UNCHANGED <<disk, wakers, writer, offered, rd>>
    /\ UNCHANGED progVars

\* AsyncWrite::poll_shutdown returning Ready
WriterPollShutdown(ok) ==
    /\ writer = "live"
    /\ state' = PollShutdownState(state, ok)
    /\ UNCHANGED <<disk, wakers, writer, offered, rd>>
    /\ UNCHANGED progVars

\* SharedTemporaryFileWriter::complete (sync) / complete_no_sync
WriterComplete(sync, syncOk) ==
    /\ writer = "live"
    /\ state' = Complete(state, sync, syncOk).state
    /\ writer' = IF Complete(state, sync, syncOk).ok THEN "completed" ELSE "gone"
    /\ UNCHANGED <<disk, wakers, offered, rd>>
    /\ UNCHANGED progVars

\* The writer handle is dropped.
WriterDrop ==
    /\ writer = "live"
    /\ state' = WriterDropState(state)
    /\ writer' = "gone"
    /\ UNCHANGED <<disk, wakers, offered, rd>>
    /\ UNCHANGED progVars

NextFile ==
    \/ \E r \in Readers : FileOpenReader(r)
    \/ \E r \in Readers : ReaderPollPending(r)
    \/ \E r \in Readers : ReaderPollReady(r)
    \/ \E r \in Readers : ReaderDrop(r)
    \/ \E buf \in SeqsUpTo(MaxBody) : \E res \in WriteOutcomes(buf) : WriterPollWrite(buf, res)
    \/ \E ok \in BOOLEAN : WriterPollFlush(ok)
    \/ \E ok \in BOOLEAN : WriterPollShutdown(ok)
    \/ \E sync \in BOOLEAN : \E syncOk \in BOOLEAN : WriterComplete(sync, syncOk)
    \/ WriterDrop

SpecFile == InitFile /\ [][NextFile]_vars

\* Mutant of OpenWriter: a call made while a writer is live is refused.
OpenWriter_Exclusive(h, w) ==
    IF w = "live" \/ h.live > 0
    THEN [h EXCEPT !.calls = @ + 1]
    ELSE [calls |-> h.calls + 1, live |-> h.live + 1]

\* SharedTemporaryFile::writer() on a file whose first writer is `w`: the file
\* is opened once more and a further writer is returned, whatever `w` is.
OpenWriter(h, w) == [calls |-> h.calls + 1, live |-> h.live + 1]

\* SharedTemporaryFile::writer(), called again on the same file.
FileOpenWriter ==
    /\ handles.calls < MaxWriterCalls
    /\ handles' = OpenWriter(handles, writer)
    /\ UNCHANGED <<disk, state, wakers, writer, offered, rd, guard, fw, yeet, channel,
                   rec, open, commands, backendQueue, dispatched, now, second>>
    /\ UNCHANGED shutVars

\* A further writer handle is dropped.
ExtraWriterDrop ==
    /\ handles.live > 0
    /\ handles' = [handles EXCEPT !.live = @ - 1]
    /\ state' = WriterDropState(state)
    /\ UNCHANGED <<disk, wakers, writer, offered, rd, guard, fw, yeet, channel,
                   rec, open, commands, backendQueue, dispatched, now, second>>
    /\ UNCHANGED shutVars

\* The file with its writer and further calls of writer(). What a further
\* handle writes is left out: where its cursor stands is not decided by the
\* shared file's code.
NextWriters ==
    \/ FileOpenWriter
    \/ ExtraWriterDrop
    \/ \E buf \in SeqsUpTo(MaxBody) : \E res \in WriteOutcomes(buf) : WriterPollWrite(buf, res)
    \/ \E ok \in BOOLEAN : WriterPollFlush(ok)
    \/ \E ok \in BOOLEAN : WriterPollShutdown(ok)
    \/ \E sync \in BOOLEAN : \E syncOk \in BOOLEAN : WriterComplete(sync, syncOk)
    \/ WriterDrop

SpecWriters == InitFile /\ [][NextWriters]_vars

\* ------------------------------------------------------------------ digests

\* A digest of a byte sequence, as an injective code of the sequence (no
\* collisions): the bytes as digits after a leading 1.
RECURSIVE Digest(_, _)
Digest(s, base) ==
    IF s = <<>> THEN 1 ELSE Digest(SubSeq(s, 1, Len(s) - 1), base) * base + s[Len(s)]

\* HashMd5::finalize of a context that consumed `s`.
Md5Of(s) == Digest(s, 3)
\* HashSha256::finalize of a hasher updated with `s`.
Sha256Of(s) == Digest(s, 4)

\* --------------------------------------------------------------- FileWriter

\* FileWriter::update_state: the size and both hashers take the whole buffer.
FileWriterUpdateState(w, buf) ==
    [md5 |-> w.md5 \o buf, sha256 |-> w.sha256 \o buf,
     file_size |-> w.file_size + Len(buf)]

\* FileWriter::write(chunk) when the handle's poll_write returned `res`:
\* update_state(chunk) first, then one write of the shared file's writer.
\* [fw, state, disk, ok, n].
FileWriterWrite(w, st, d, chunk, res) ==
    LET h == HandlePollWriteResult(st, res)
    IN  [fw |-> FileWriterUpdateState(w, chunk),
         state |-> h.state,
         disk |-> DiskAfterWrite(d, chunk, res),
         ok |-> h.ok,
         n |-> h.n]

\* The WriteSummary built by FileWriter::finalize at the instant t:
\* expires is Instant::now() + expiration.
Summary(w, t, expiration) ==
    [some |-> TRUE, expires |-> t + expiration, md5 |-> Md5Of(w.md5),
     sha256 |-> Sha256Of(w.sha256), file_size_bytes |-> w.file_size]

\* FileWriter::finalize(mode, expiration), called at the instant t:
\* [ok, state, summary].
FileWriterFinalize(w, st, sync, syncOk, t, expiration) ==
    LET c == Complete(st, sync, syncOk)
    IN  [ok |-> c.ok, state |-> c.state,
         summary |-> IF c.ok THEN Summary(w, t, expiration) ELSE NoSummary]

\* ---------------------------------------------------------- FileWriterGuard

\* enum WriteResult
Success(summary) == [kind |-> "Success", summary |-> summary]
WriteFailed == [kind |-> "Failed", summary |-> NoSummary]

\* FileWriterGuard::new
NewGuard(expiration, expected_size, content_md5) ==
    [live |-> TRUE, inner |-> TRUE, sender |-> TRUE, expiration |-> expiration,
     file_size |-> 0, expected_size |-> expected_size,
     expected_content_md5 |-> content_md5]

\* Mutant of FailIfNotAlreadyClosed: the sender is used but not taken.
FailIfNotAlreadyClosed_KeepsSender(g, ch) ==
    [guard |-> g,
     channel |-> IF g.sender THEN Append(ch, WriteFailed) ELSE ch]

\* FileWriterGuard::fail_if_not_already_closed: [guard, channel].
FailIfNotAlreadyClosed(g, ch) ==
    [guard |-> [g EXCEPT !.sender = FALSE],
     channel |-> IF g.sender THEN Append(ch, WriteFailed) ELSE ch]

\* FileWriterGuard::try_signal_success: [ok, guard, channel]. The guard is
\* consumed; its drop finds the sender taken.
TrySignalSuccess(g, ch, summary) ==
    [ok |-> g.sender,
     guard |-> [g EXCEPT !.sender = FALSE],
     channel |-> IF g.sender THEN Append(ch, Success(summary)) ELSE ch]

\* Mutant of GuardDrop: the guard has no Drop implementation, so dropping it
\* only drops its fields (the sender unused, the writer).
GuardDrop_NoSignal(g, ch, st) ==
    [guard |-> [g EXCEPT !.live = FALSE, !.inner = FALSE, !.sender = FALSE],
     channel |-> ch,
     state |-> IF g.inner THEN WriterDropState(st) ELSE st]

\* impl Drop for FileWriterGuard, then the drop of its fields: the FileWriter,
\* when still held, drops the shared file's writer. [guard, channel, state].
GuardDrop(g, ch, st) ==
    LET f == FailIfNotAlreadyClosed(g, ch)
    IN  [guard |-> [f.guard EXCEPT !.live = FALSE, !.inner = FALSE],
         channel |-> f.channel,
         state |-> IF g.inner THEN WriterDropState(st) ELSE st]

\* FileWriterGuard::write after writer.write(chunk) returned `w`:
\* [ok, err, n, guard, channel].
GuardWrite(g, ch, w) ==
    IF ~w.ok
    THEN [ok |-> FALSE, err |-> "Io", n |-> 0, guard |-> g, channel |-> ch]
    ELSE LET g2 == [g EXCEPT !.file_size = @ + w.n]
         IN  IF g.expected_size.some /\ g2.file_size > g.expected_size.v
             THEN LET f == FailIfNotAlreadyClosed(g2, ch)
                  IN  [ok |-> FALSE, err |-> "UnexpectedEof", n |-> 0,
                       guard |-> f.guard, channel |-> f.channel]
             ELSE [ok |-> TRUE, err |-> "none", n |-> w.n, guard |-> g2,
                   channel |-> ch]

\* FinalizationError::InvalidFileLength(u64, u64), displayed as
\* "Invalid file length: expected {0}, got {1}".
InvalidFileLength(f0, f1) == [expected |-> f0, got |-> f1]

\* Mutant of GuardFinalize: the declared MD5 is not compared.
GuardFinalize_NoMd5Check(g, ch, w, st, sync, syncOk, t) ==
    LET fin == FileWriterFinalize(w, st, sync, syncOk, t, g.expiration)
        taken == [g EXCEPT !.inner = FALSE]
    IN  IF ~fin.ok
        THEN LET d == GuardDrop(taken, ch, fin.state)
             IN  [ok |-> FALSE, err |-> "FileSyncFailed", summary |-> NoSummary,
                  detail |-> NoDetail,
                  guard |-> d.guard, channel |-> d.channel, state |-> d.state]
        ELSE IF g.expected_size.some /\ g.file_size # g.expected_size.v
        THEN LET d == GuardDrop(FailIfNotAlreadyClosed(taken, ch).guard,
                                FailIfNotAlreadyClosed(taken, ch).channel, fin.state)
             IN  [ok |-> FALSE, err |-> "InvalidFileLength", summary |-> NoSummary,
                  detail |-> InvalidFileLength(g.file_size, g.expected_size.v),
                  guard |-> d.guard, channel |-> d.channel, state |-> d.state]
        ELSE LET s == TrySignalSuccess(taken, ch, fin.summary)
                 d == GuardDrop(s.guard, s.channel, fin.state)
             IN  [ok |-> s.ok,
                  err |-> IF s.ok THEN "none" ELSE "BackboneCommunicationFailed",
                  summary |-> IF s.ok THEN fin.summary ELSE NoSummary,
                  detail |-> NoDetail,
                  guard |-> d.guard, channel |-> d.channel, state |-> d.state]

\* FileWriterGuard::finalize(mode), called at the instant t:
\* [ok, err, summary, detail, guard, channel, state].
\* The guard is consumed on every path, so its drop is part of the call.
GuardFinalize(g, ch, w, st, sync, syncOk, t) ==
    LET fin == FileWriterFinalize(w, st, sync, syncOk, t, g.expiration)
        taken == [g EXCEPT !.inner = FALSE]
    IN  IF ~fin.ok
        THEN LET d == GuardDrop(taken, ch, fin.state)
             IN  [ok |-> FALSE, err |-> "FileSyncFailed", summary |-> NoSummary,
                  detail |-> NoDetail,
                  guard |-> d.guard, channel |-> d.channel, state |-> d.state]
        ELSE IF g.expected_size.some /\ g.file_size # g.expected_size.v
        THEN LET d == GuardDrop(FailIfNotAlreadyClosed(taken, ch).guard,
                                FailIfNotAlreadyClosed(taken, ch).channel, fin.state)
             IN  [ok |-> FALSE, err |-> "InvalidFileLength", summary |-> NoSummary,
                  detail |-> InvalidFileLength(g.file_size, g.expected_size.v),
                  guard |-> d.guard, channel |-> d.channel, state |-> d.state]
        ELSE IF g.expected_content_md5.some /\ g.expected_content_md5.v # fin.summary.md5
        THEN LET d == GuardDrop(FailIfNotAlreadyClosed(taken, ch).guard,
                                FailIfNotAlreadyClosed(taken, ch).channel, fin.state)
             IN  [ok |-> FALSE, err |-> "IntegrityCheckFailed", summary |-> NoSummary,
                  detail |-> NoDetail,
                  guard |-> d.guard, channel |-> d.channel, state |-> d.state]
        ELSE LET s == TrySignalSuccess(taken, ch, fin.summary)
                 d == GuardDrop(s.guard, s.channel, fin.state)
             IN  [ok |-> s.ok,
                  err |-> IF s.ok THEN "none" ELSE "BackboneCommunicationFailed",
                  summary |-> IF s.ok THEN fin.summary ELSE NoSummary,
                  detail |-> NoDetail,
                  guard |-> d.guard, channel |-> d.channel, state |-> d.state]

\* ------------------------------------------------------ Backbone and do_yeet

RemoveWriter(id) == [cmd |-> "RemoveWriter", id |-> id, summary |-> NoSummary]
ReadyForDistribution(id, s) == [cmd |-> "ReadyForDistribution", id |-> id, summary |-> s]
ReceiveFile(id) == [cmd |-> "ReceiveFile", id |-> id, summary |-> NoSummary]
DistributeFile(id, s) == [cmd |-> "DistributeFile", id |-> id, summary |-> s]

\* The Content-Length and Content-MD5 headers a request may carry; the MD5 is
\* that of one of a few bodies, so that it matches some uploads and not others.
ContentLengths == {None} \cup {Some(n) : n \in 0 .. MaxBody}
DeclaredBodies == {<<1>>, <<1, 2>>}
ContentMd5s == {None} \cup {Some(Md5Of(s)) : s \in DeclaredBodies}

\* Backbone::new (no file yet) and a request entering do_yeet.
InitProgram ==
    /\ disk = <<>>
    /\ state = Pending(0)
    /\ wakers = {}
    /\ writer = "none"
    /\ offered = 0
    /\ rd = [r \in Readers |-> NewReader]
    /\ guard = NoGuard
    /\ fw = NoWriter
    /\ yeet = [NoYeet EXCEPT !.pc = "new_file"]
    /\ channel = <<>>
    /\ rec = NoRecord
    /\ open = {}
    /\ commands = <<>>
    /\ backendQueue = <<>>
    /\ dispatched = <<>>
    /\ now = 0
    /\ second = "none"
    /\ handles = NoHandles

\* The program while main serves requests.
Init == InitProgram /\ InitServing

\* Backbone::new_file, vacant entry: the file, its writer, the record (whose
\* lifecycle task is spawned) and the guard.
NewFile(expected_size, content_md5) ==
    /\ yeet.pc = "new_file"
    /\ FileId \notin open
    /\ disk' = <<>>
    /\ state' = Pending(0)
    /\ writer' = "live"
    /\ open' = open \cup {FileId}
    /\ rec' = [file |-> TRUE, summary |-> NoSummary, pc |-> "await_writer",
               result |-> NoSummary, created |-> now, sleep_until |-> 0]
    /\ fw' = NoWriter
    /\ guard' = NewGuard(TEMPORAL_LEASE, expected_size, content_md5)
    /\ yeet' = [yeet EXCEPT !.pc = "stream"]
    /\ UNCHANGED <<wakers, offered, rd, channel, commands, backendQueue, dispatched,
                   now, second, handles>>
    /\ UNCHANGED shutVars

\* Mutant of NewFileOccupied: the new record is inserted over the existing one.
NewFileOccupied_Replaces ==
    /\ second = "none"
    /\ FileId \in open
    /\ second' = "Ok"
    /\ rec' = [file |-> TRUE, summary |-> NoSummary, pc |-> "await_writer",
               result |-> NoSummary, created |-> now, sleep_until |-> 0]
    /\ UNCHANGED <<disk, state, wakers, writer, offered, rd, guard, fw, yeet, channel,
                   open, commands, backendQueue, dispatched, now, handles>>
    /\ UNCHANGED shutVars

\* Backbone::new_file, occupied entry: another request presents the id of the
\* registered record. Its new file and writer are dropped (they are objects of
\* their own, not those of the record) and InternalErrorMayRetry is returned.
NewFileOccupied ==
    /\ second = "none"
    /\ FileId \in open
    /\ second' = "InternalErrorMayRetry"
    /\ UNCHANGED <<disk, state, wakers, writer, offered, rd, guard, fw, yeet, channel,
                   rec, open, commands, backendQueue, dispatched, now, handles>>
    /\ UNCHANGED shutVars

\* do_yeet returns (or its future is dropped) while holding the guard.
YeetReturn(result, g, ch, st) ==
    LET d == GuardDrop(g, ch, st)
    IN  /\ guard' = d.guard
        /\ channel' = d.channel
        /\ state' = d.state
        /\ writer' = "gone"
        /\ fw' = NoWriter
        /\ yeet' = [pc |-> "done", data |-> <<>>, result |-> result,
                    summary |-> NoSummary, sync_failed |-> FALSE, detail |-> NoDetail]

\* do_yeet: stream.next() yields a chunk of the body.
StreamNext(chunk) ==
    /\ yeet.pc = "stream"
    /\ offered + Len(chunk) <= MaxBody
    /\ offered' = offered + Len(chunk)
    /\ yeet' = [yeet EXCEPT !.data = chunk,
                            !.pc = IF chunk = <<>> THEN "sync" ELSE "write"]
    /\ UNCHANGED <<disk, state, wakers, writer, rd, guard, fw, channel, rec, open,
                   commands, backendQueue, dispatched, now, second, handles>>
    /\ UNCHANGED shutVars

\* do_yeet: stream.next() yields an error; 500 is returned.
StreamError ==
    /\ yeet.pc = "stream"
    /\ YeetReturn("StreamError", guard, channel, state)
    /\ UNCHANGED <<disk, wakers, offered, rd, rec, open, commands, backendQueue,
                   dispatched, now, second, handles>>
    /\ UNCHANGED shutVars

\* do_yeet: the body has ended.
StreamEnd ==
    /\ yeet.pc = "stream"
    /\ yeet' = [yeet EXCEPT !.pc = "finalize"]
    /\ UNCHANGED <<disk, state, wakers, writer, offered, rd, guard, fw, channel, rec,
                   open, commands, backendQueue, dispatched, now, second, handles>>
    /\ UNCHANGED shutVars

\* do_yeet: writer.write(data.chunk()) in the inner loop; Ok(n) advances the
\* data by n, an error returns 500.
YeetWrite(res) ==
    /\ yeet.pc = "write"
    /\ res \in WriteOutcomes(yeet.data)
    /\ LET w == FileWriterWrite(fw, state, disk, yeet.data, res)
           g == GuardWrite(guard, channel, w)
           rest == SubSeq(yeet.data, g.n + 1, Len(yeet.data))
       IN  /\ disk' = w.disk
           /\ wakers' = WakeReaders(wakers)
           /\ IF g.ok
              THEN /\ fw' = w.fw
                   /\ state' = w.state
                   /\ guard' = g.guard
                   /\ channel' = g.channel
                   /\ yeet' = [yeet EXCEPT !.data = rest,
                                           !.pc = IF rest = <<>> THEN "sync" ELSE "write"]
                   /\ UNCHANGED writer
              ELSE YeetReturn(IF g.err = "Io" THEN "WriteError" ELSE g.err,
                              g.guard, g.channel, w.state)
    /\ UNCHANGED <<offered, rd, rec, open, commands, backendQueue, dispatched, now,
                   second, handles>>
    /\ UNCHANGED shutVars

\* do_yeet: writer.sync_data() after each chunk of the body.
YeetSyncData(ok) ==
    /\ yeet.pc = "sync"
    /\ IF ok
       THEN /\ yeet' = [yeet EXCEPT !.pc = "stream"]
            /\ UNCHANGED <<state, writer, guard, fw, channel>>
       ELSE YeetReturn("SyncError", guard, channel, state)
    /\ UNCHANGED <<disk, wakers, offered, rd, rec, open, commands, backendQueue,
                   dispatched, now, second, handles>>
    /\ UNCHANGED shutVars

\* do_yeet: writer.finalize(mode) and the response. do_yeet passes NoSync; the
\* mode is an input here so that the guard's Sync path is exercised as well.
YeetFinalize(sync, syncOk) ==
    /\ yeet.pc = "finalize"
    /\ LET f == GuardFinalize(guard, channel, fw, state, sync, syncOk, now)
       IN  /\ guard' = f.guard
           /\ channel' = f.channel
           /\ state' = f.state
           /\ yeet' = [pc |-> "done", data |-> <<>>,
                       result |-> IF f.ok THEN "Created" ELSE f.err,
                       summary |-> f.summary,
                       sync_failed |-> sync /\ ~syncOk,
                       detail |-> f.detail]
    /\ writer' = IF GuardFinalize(guard, channel, fw, state, sync, syncOk, now).err
                        = "FileSyncFailed" THEN "gone" ELSE "completed"
    /\ fw' = NoWriter
    /\ UNCHANGED <<disk, wakers, offered, rd, rec, open, commands, backendQueue,
                   dispatched, now, second, handles>>
    /\ UNCHANGED shutVars

\* The request is cancelled: the do_yeet future, and with it the guard, is
\* dropped at an await point.
YeetCancel ==
    /\ yeet.pc \in {"stream", "write", "sync", "finalize"}
    /\ YeetReturn("Cancelled", guard, channel, state)
    /\ UNCHANGED <<disk, wakers, offered, rd, rec, open, commands, backendQueue,
                   dispatched, now, second, handles>>
    /\ UNCHANGED shutVars

\* --------------------------------------------- FileRecord::lifetime_handler

\* writer_command.await: Success(summary) goes on to publish; Failed, or a
\* channel closed without a value, goes on to close the file.
LifetimeAwait ==
    /\ rec.pc = "await_writer"
    /\ channel # <<>> \/ (guard.live = FALSE /\ writer \in {"gone", "completed"})
    /\ rec' = IF channel # <<>> /\ channel[1].kind = "Success"
              THEN [rec EXCEPT !.pc = "publish", !.result = channel[1].summary]
              ELSE [rec EXCEPT !.pc = "close_file"]
    /\ UNCHANGED <<disk, state, wakers, writer, offered, rd, guard, fw, yeet, channel,
                   open, commands, backendQueue, dispatched, now, second, handles>>
    /\ UNCHANGED shutVars

\* Mutant of LifetimePublish: the summary is not stored before the command.
LifetimePublish_NoStore ==
    /\ rec.pc = "publish"
    /\ rec' = [rec EXCEPT !.pc = "notify"]
    /\ UNCHANGED <<disk, state, wakers, writer, offered, rd, guard, fw, yeet, channel,
                   open, commands, backendQueue, dispatched, now, second, handles>>
    /\ UNCHANGED shutVars

\* inner.summary = Some(summary)
LifetimePublish ==
    /\ rec.pc = "publish"
    /\ rec' = [rec EXCEPT !.summary = rec.result, !.pc = "notify"]
    /\ UNCHANGED <<disk, state, wakers, writer, offered, rd, guard, fw, yeet, channel,
                   open, commands, backendQueue, dispatched, now, second, handles>>
    /\ UNCHANGED shutVars

\* backbone_command.send(ReadyForDistribution(id, summary)); the sleep of
\* apply_temporal_lease starts when the send returns.
LifetimeNotify ==
    /\ rec.pc = "notify"
    /\ Len(commands) < BackboneChannelCapacity
    /\ commands' = Append(commands, ReadyForDistribution(FileId, rec.result))
    /\ rec' = [rec EXCEPT !.pc = "lease", !.sleep_until = now + TEMPORAL_LEASE]
    /\ UNCHANGED <<disk, state, wakers, writer, offered, rd, guard, fw, yeet, channel,
                   open, backendQueue, dispatched, now, second, handles>>
    /\ UNCHANGED shutVars

\* Mutant of LifetimeLeaseElapsed: the task sends a RemoveWriter when the
\* sleep ends, before the one of remove_writer.
LifetimeLeaseElapsed_Removes ==
    /\ rec.pc = "lease"
    /\ Len(commands) < BackboneChannelCapacity
    /\ commands' = Append(commands, RemoveWriter(FileId))
    /\ now' = IF now >= rec.sleep_until THEN now ELSE rec.sleep_until
    /\ rec' = [rec EXCEPT !.pc = "remove_writer"]
    /\ UNCHANGED <<disk, state, wakers, writer, offered, rd, guard, fw, yeet, channel,
                   open, backendQueue, dispatched, second, handles>>
    /\ UNCHANGED shutVars

\* apply_temporal_lease: tokio::time::sleep(duration) ends. The timer fires at
\* its deadline: the clock has reached the deadline by then, if not before.
LifetimeLeaseElapsed ==
    /\ rec.pc = "lease"
    /\ now' = IF now >= rec.sleep_until THEN now ELSE rec.sleep_until
    /\ rec' = [rec EXCEPT !.pc = "remove_writer"]
    /\ UNCHANGED <<disk, state, wakers, writer, offered, rd, guard, fw, yeet, channel,
                   open, commands, backendQueue, dispatched, second, handles>>
    /\ UNCHANGED shutVars

\* Mutant of LifetimeCloseFile: the record keeps its file.
LifetimeCloseFile_KeepsFile ==
    /\ rec.pc = "close_file"
    /\ rec' = [rec EXCEPT !.pc = "remove_writer"]
    /\ UNCHANGED <<disk, state, wakers, writer, offered, rd, guard, fw, yeet, channel,
                   open, commands, backendQueue, dispatched, now, second, handles>>
    /\ UNCHANGED shutVars

\* close_file: inner.file.take()
LifetimeCloseFile ==
    /\ rec.pc = "close_file"
    /\ rec' = [rec EXCEPT !.file = FALSE, !.pc = "remove_writer"]
    /\ UNCHANGED <<disk, state, wakers, writer, offered, rd, guard, fw, yeet, channel,
                   open, commands, backendQueue, dispatched, now, second, handles>>
    /\ UNCHANGED shutVars

\* Mutant of LifetimeRemoveWriter: the lifecycle task removes the registry
\* entry itself instead of sending the command.
LifetimeRemoveWriter_Direct ==
    /\ rec.pc = "remove_writer"
    /\ open' = open \ {FileId}
    /\ rec' = [rec EXCEPT !.pc = "done", !.file = FALSE]
    /\ UNCHANGED <<disk, state, wakers, writer, offered, rd, guard, fw, yeet, channel,
                   commands, backendQueue, dispatched, now, second, handles>>
    /\ UNCHANGED shutVars

\* remove_writer: backbone_command.send(RemoveWriter(id)); the task ends.
LifetimeRemoveWriter ==
    /\ rec.pc = "remove_writer"
    /\ Len(commands) < BackboneChannelCapacity
    /\ commands' = Append(commands, RemoveWriter(FileId))
    /\ rec' = [rec EXCEPT !.pc = "done"]
    /\ UNCHANGED <<disk, state, wakers, writer, offered, rd, guard, fw, yeet, channel,
                   open, backendQueue, dispatched, now, second, handles>>
    /\ UNCHANGED shutVars

\* ---------------------------------------------------- Backbone::command_loop

\* RemoveWriter(id): the record leaves the registry and is dropped.
BackboneRemoveWriter ==
    /\ commands # <<>>
    /\ Head(commands).cmd = "RemoveWriter"
    /\ commands' = Tail(commands)
    /\ open' = open \ {Head(commands).id}
    /\ rec' = [rec EXCEPT !.file = FALSE]
    /\ UNCHANGED <<disk, state, wakers, writer, offered, rd, guard, fw, yeet, channel,
                   backendQueue, dispatched, now, second, handles>>
    /\ UNCHANGED shutVars

\* ReadyForDistribution(id, summary): DistributeFile goes to the dispatcher.
BackboneReadyForDistribution ==
    /\ commands # <<>>
    /\ Head(commands).cmd = "ReadyForDistribution"
    /\ Len(backendQueue) < EventBufferSize
    /\ commands' = Tail(commands)
    /\ backendQueue' = Append(backendQueue,
                              DistributeFile(Head(commands).id, Head(commands).summary))
    /\ UNCHANGED <<disk, state, wakers, writer, offered, rd, guard, fw, yeet, channel,
                   rec, open, dispatched, now, second, handles>>
    /\ UNCHANGED shutVars

\* ReceiveFile(id, sender): forwarded to the dispatcher.
BackboneReceiveFile ==
    /\ commands # <<>>
    /\ Head(commands).cmd = "ReceiveFile"
    /\ Len(backendQueue) < EventBufferSize
    /\ commands' = Tail(commands)
    /\ backendQueue' = Append(backendQueue, Head(commands))
    /\ UNCHANGED <<disk, state, wakers, writer, offered, rd, guard, fw, yeet, channel,
                   rec, open, dispatched, now, second, handles>>
    /\ UNCHANGED shutVars

\* BackendRegistry::handle_events: receiver.recv() yields a command, and the
\* task goes on as `d`.
DispatcherTake(d) ==
    /\ backendQueue # <<>>
    /\ backendQueue' = Tail(backendQueue)
    /\ dispatched' = Append(dispatched, Head(backendQueue))
    /\ disp' = d
    /\ UNCHANGED <<disk, state, wakers, writer, offered, rd, guard, fw, yeet, channel,
                   rec, open, commands, now, second, handles>>
    /\ UNCHANGED <<mainPc, holders, weak, call, invocations, loopPc, loopCmd, host, guards,
                   released, checked>>

\* BackendRegistry::handle_events: receiver.recv() yields a command. What the
\* task does with the command is left to SpecMain.
DispatcherRecv == DispatcherTake(disp)

\* FileReader::expiration_date, the instant sent in the Expires header.
ExpirationDate(created, expiration_duration) == created + expiration_duration

\* Mutant of GetFile: a record that released its file still yields a reader.
GetFile_IgnoresRelease(r) ==
    /\ rd[r].st = "unopened"
    /\ IF FileId \in open
       THEN /\ rd' = [rd EXCEPT ![r] = OpenReader(rec.summary)]
            /\ UNCHANGED commands
       ELSE /\ Len(commands) < BackboneChannelCapacity
            /\ commands' = Append(commands, ReceiveFile(FileId))
            /\ rd' = [rd EXCEPT ![r] = [NewReader EXCEPT !.st = "unknown"]]
    /\ UNCHANGED <<disk, state, wakers, writer, offered, guard, fw, yeet, channel, rec,
                   open, backendQueue, dispatched, now, second, handles>>
    /\ UNCHANGED shutVars

\* Backbone::get_file(id): a FileReader carrying the record's summary, or
\* FileExpired when the record released its file, or, for an id that is not
\* registered, a ReceiveFile command and UnknownFile.
GetFile(r) ==
    /\ rd[r].st = "unopened"
    /\ IF FileId \in open
       THEN /\ rd' = [rd EXCEPT ![r] = IF rec.file THEN OpenReader(rec.summary)
                                       ELSE [NewReader EXCEPT !.st = "expired"]]
            /\ UNCHANGED commands
       ELSE /\ Len(commands) < BackboneChannelCapacity
            /\ commands' = Append(commands, ReceiveFile(FileId))
            /\ rd' = [rd EXCEPT ![r] = [NewReader EXCEPT !.st = "unknown"]]
    /\ UNCHANGED <<disk, state, wakers, writer, offered, guard, fw, yeet, channel, rec,
                   open, backendQueue, dispatched, now, second, handles>>
    /\ UNCHANGED shutVars

Upload ==
    \/ \E es \in ContentLengths : \E md5 \in ContentMd5s : NewFile(es, md5)
    \/ \E chunk \in SeqsUpTo(MaxBody) : StreamNext(chunk)
    \/ StreamError
    \/ StreamEnd
    \/ \E res \in WriteOutcomes(yeet.data) : YeetWrite(res)
    \/ \E ok \in BOOLEAN : YeetSyncData(ok)
    \/ \E sync \in BOOLEAN : \E syncOk \in BOOLEAN : YeetFinalize(sync, syncOk)
    \/ YeetCancel

Lifetime ==
    \/ LifetimeAwait
    \/ LifetimePublish
    \/ LifetimeNotify
    \/ LifetimeLeaseElapsed
    \/ LifetimeCloseFile
    \/ LifetimeRemoveWriter

CommandLoop ==
    \/ BackboneRemoveWriter
    \/ BackboneReadyForDistribution
    \/ BackboneReceiveFile


Requests == \E r \in Readers : GetFile(r)

Next == Upload \/ Lifetime \/ CommandLoop \/ DispatcherRecv \/ Requests

\* The program with one upload and NumReaders get_file requests. The clock
\* moves only when the lease's timer fires; SpecTimed lets time pass at any
\* moment, SpecCollide adds a second request that presents the same id.
Spec == Init /\ [][Next]_vars

\* The lifecycle task, the command loop and the dispatcher loop are spawned
\* tokio tasks: each runs when it can.
FairSpec ==
    /\ Spec
    /\ WF_vars(Lifetime)
    /\ WF_vars(CommandLoop)
    /\ WF_vars(DispatcherRecv)

\* Time passes, by one lease at a step, while the record exists.
Tick ==
    /\ rec.pc # "none"
    /\ now < MaxTicks * TEMPORAL_LEASE
    /\ now' = now + TEMPORAL_LEASE
    /\ UNCHANGED <<disk, state, wakers, writer, offered, rd, guard, fw, yeet, channel,
                   rec, open, commands, backendQueue, dispatched, second, handles>>
    /\ UNCHANGED shutVars

NextTimed == Next \/ Tick

SpecTimed == Init /\ [][NextTimed]_vars

NextCollide == Next \/ NewFileOccupied

SpecCollide == Init /\ [][NextCollide]_vars

\* do_yeet for a request without Content-Length and Content-MD5 headers.
UploadPlain ==
    \/ NewFile(None, None)
    \/ \E chunk \in SeqsUpTo(MaxBody) : StreamNext(chunk)
    \/ StreamError
    \/ StreamEnd
    \/ \E res \in WriteOutcomes(yeet.data) : YeetWrite(res)
    \/ \E ok \in BOOLEAN : YeetSyncData(ok)
    \/ \E sync \in BOOLEAN : \E syncOk \in BOOLEAN : YeetFinalize(sync, syncOk)
    \/ YeetCancel

\* The program with the consumers of the first NumPolled FileReaders polling
\* them, and dropping them, at any moment. The requests carry no Content-Length
\* and no Content-MD5 header: what these add is the guard's checks, which do
\* not touch a reader.
NextRead ==
    \/ UploadPlain
    \/ Lifetime
    \/ CommandLoop
    \/ DispatcherRecv
    \/ Requests
    \/ \E r \in PolledReaders : ReaderPollPending(r)
    \/ \E r \in PolledReaders : ReaderPollReady(r)
    \/ \E r \in PolledReaders : ReaderDrop(r)

SpecRead == Init /\ [][NextRead]_vars

\* ------------------ main, the dispatcher, the accessor bridge, the rendezvous

\* Every variable of the program but the backbone channel and those of main
\* and of the two loops.
coreVars == <<disk, state, wakers, writer, offered, rd, guard, fw, yeet, channel, rec,
              open, backendQueue, dispatched, now, second, handles, loopCmd, host>>

\* BackendRegistryBuilder::add_backends_from_iter: the backends in the order
\* of their registration.
Backends == [i \in 1 .. NumBackends |-> i]

\* Arc::strong_count(&backbone)
StrongCount == Cardinality(holders)

\* Mutant of BackboneSenders: the lifecycle task holds no Sender of its own.
BackboneSenders_OnlyBackbone ==
    IF holders # {} THEN 1 ELSE 0

\* The Senders of the backbone channel: the Backbone's own, while the Backbone
\* exists, and the clone the record's lifecycle task holds until it ends.
BackboneSenders ==
    (IF holders # {} THEN 1 ELSE 0) + (IF rec.pc \notin {"none", "done"} THEN 1 ELSE 0)

\* Mutant of RendezvousReady: the wait does not look at the guards.
RendezvousReady_IgnoresGuards(g) == TRUE

\* ShutdownRendezvous::rendezvous: its own sender dropped, recv() yields None
\* when no trigger is left.
RendezvousReady(g) == g = {}

\* Mutant of GetBackbone: a Weak that was set upgrades whatever the count.
GetBackbone_Dangling(w, h) == IF w = "set" THEN "Ok" ELSE "BackboneUnavailable"

\* FileAccessorBridge::get_backbone: Weak::upgrade succeeds when the slot was
\* set and the Backbone has a strong reference left.
GetBackbone(w, h) == IF w = "set" /\ h # {} THEN "Ok" ELSE "BackboneUnavailable"

\* What Backbone::get_file(id) returns.
GetFileOutcome ==
    CASE FileId \notin open -> "UnknownFile"
      [] ~rec.file -> "FileExpired"
      [] OTHER -> "Reader"

\* Mutant of NextBackend: the loop over the backends ends at the first error.
NextBackend_StopsOnError(idx, ok) == IF ok THEN idx + 1 ELSE NumBackends + 1

\* handle_events, `for backend in &backends`: the backend after the one that
\* returned, whatever it returned.
NextBackend(idx, ok) == idx + 1

\* handle_events after the backend at d.idx returned.
AfterBackend(d, ok) ==
    IF NextBackend(d.idx, ok) > NumBackends THEN DispIdle
    ELSE [d EXCEPT !.idx = NextBackend(d.idx, ok)]

\* A distribute_file call that returned: the backend, the command's id and
\* summary, what the accessor returned to it, and its result.
Invocation(b, cmd, accessor, ok) ==
    [backend |-> b, id |-> cmd.id, summary |-> cmd.summary, accessor |-> accessor,
     ok |-> ok]

\* main before Backbone::new (main.rs:91): the bridge exists with an empty
\* Weak, the registry is built and its dispatcher task runs with its guard.
InitStartup ==
    /\ mainPc = "new_backbone"
    /\ holders = {}
    /\ weak = "unset"
    /\ call = NoCall
    /\ disp = DispIdle
    /\ invocations = <<>>
    /\ loopPc = "none"
    /\ loopCmd = NoCommand
    /\ host = HostInit
    /\ guards = {"registry"}
    /\ released = [g \in GuardOwners |-> 0]
    /\ checked = 0

InitMain == InitProgram /\ InitStartup

\* main: Arc::new(Backbone::new(backend_sender, rendezvous.fork_guard())).
MainNewBackbone ==
    /\ mainPc = "new_backbone"
    /\ mainPc' = "set_backbone"
    /\ holders' = {"main"}
    /\ loopPc' = "running"
    /\ guards' = guards \cup {"backbone"}
    /\ UNCHANGED <<weak, call, disp, invocations, released, checked, commands>>
    /\ UNCHANGED coreVars

\* main: file_accessor.set_backbone(&backbone).
MainSetBackbone ==
    /\ mainPc = "set_backbone"
    /\ mainPc' = "app_state"
    /\ weak' = "set"
    /\ UNCHANGED <<holders, call, disp, invocations, loopPc, guards, released, checked,
                   commands>>
    /\ UNCHANGED coreVars

\* main: AppState { backbone: backbone.clone() } goes to the servers.
MainAppState ==
    /\ mainPc = "app_state"
    /\ mainPc' = "serving"
    /\ holders' = holders \cup {"app_state"}
    /\ UNCHANGED <<weak, call, disp, invocations, loopPc, guards, released, checked,
                   commands>>
    /\ UNCHANGED coreVars

\* main: serve_requests returns, the servers having stopped with no request in
\* progress; the router and its AppState are dropped.
MainServersStopped ==
    /\ mainPc = "serving"
    /\ yeet.pc \in {"new_file", "done"}
    /\ mainPc' = "shut_down_backbone"
    /\ holders' = holders \ {"app_state"}
    /\ UNCHANGED <<weak, call, disp, invocations, loopPc, guards, released, checked,
                   commands>>
    /\ UNCHANGED coreVars

\* main: shut_down_backbone(backbone) asserts a strong count of one; the Arc
\* it was given is dropped when it returns, and when it panics.
MainShutDownBackbone ==
    /\ mainPc = "shut_down_backbone"
    /\ checked' = StrongCount
    /\ mainPc' = IF StrongCount = 1 THEN "rendezvous" ELSE "panicked"
    /\ holders' = holders \ {"main"}
    /\ UNCHANGED <<weak, call, disp, invocations, loopPc, guards, released, commands>>
    /\ UNCHANGED coreVars

\* main: the rendezvous wait completes.
MainRendezvous ==
    /\ mainPc = "rendezvous"
    /\ RendezvousReady(guards)
    /\ mainPc' = "done"
    /\ UNCHANGED <<holders, weak, call, disp, invocations, loopPc, guards, released,
                   checked, commands>>
    /\ UNCHANGED coreVars

\* Backbone::command_loop: channel.recv() yields None, every Sender being
\* dropped; the loop ends, drops its backend sender and completes its guard.
CommandLoopExit ==
    /\ loopPc = "running"
    /\ commands = <<>>
    /\ BackboneSenders = 0
    /\ loopPc' = "exited"
    /\ guards' = guards \ {"backbone"}
    /\ released' = [released EXCEPT !["backbone"] = @ + 1]
    /\ UNCHANGED <<mainPc, holders, weak, call, disp, invocations, checked, commands>>
    /\ UNCHANGED coreVars

\* handle_events: receiver.recv() yields a command; DistributeFile starts the
\* loop over the backends.
HandleEventsRecv ==
    /\ disp.pc = "recv"
    /\ backendQueue # <<>>
    /\ DispatcherTake(IF Head(backendQueue).cmd = "DistributeFile"
                      THEN [pc |-> "distribute", cmd |-> Head(backendQueue), idx |-> 1]
                      ELSE disp)

\* Mutant of HandleEventsExit: the task ends with its guard never released.
HandleEventsExit_KeepsGuard ==
    /\ disp.pc = "recv"
    /\ backendQueue = <<>>
    /\ loopPc = "exited"
    /\ disp' = [disp EXCEPT !.pc = "exited"]
    /\ UNCHANGED <<mainPc, holders, weak, call, invocations, loopPc, guards, released,
                   checked, commands>>
    /\ UNCHANGED coreVars

\* handle_events: receiver.recv() yields None, the command loop having dropped
\* the only sender; the task completes its guard.
HandleEventsExit ==
    /\ disp.pc = "recv"
    /\ backendQueue = <<>>
    /\ loopPc = "exited"
    /\ disp' = [disp EXCEPT !.pc = "exited"]
    /\ guards' = guards \ {"registry"}
    /\ released' = [released EXCEPT !["registry"] = @ + 1]
    /\ UNCHANGED <<mainPc, holders, weak, call, invocations, loopPc, checked, commands>>
    /\ UNCHANGED coreVars

\* backend.distribute_file returns an error without asking for the file (the
\* Memcached backend: the size cap).
DistributeRejected ==
    /\ disp.pc = "distribute"
    /\ call.pc = "none"
    /\ invocations' = Append(invocations,
                             Invocation(Backends[disp.idx], disp.cmd, "none", FALSE))
    /\ disp' = AfterBackend(disp, FALSE)
    /\ UNCHANGED <<mainPc, holders, weak, call, loopPc, guards, released, checked,
                   commands>>
    /\ UNCHANGED coreVars

\* backend.distribute_file calls file_provider.get_file(id).
DistributeGetFile ==
    /\ disp.pc = "distribute"
    /\ call.pc = "none"
    /\ call' = [pc |-> "calling", by |-> "backend", result |-> "none"]
    /\ UNCHANGED <<mainPc, holders, weak, disp, invocations, loopPc, guards, released,
                   checked, commands>>
    /\ UNCHANGED coreVars

\* FileAccessorBridge::get_file: get_backbone(). The upgraded Arc is held
\* until the call returns.
BridgeGetBackbone ==
    /\ call.pc = "calling"
    /\ IF GetBackbone(weak, holders) = "Ok"
       THEN /\ holders' = holders \cup {"bridge"}
            /\ call' = [call EXCEPT !.pc = "upgraded"]
       ELSE /\ holders' = holders
            /\ call' = [call EXCEPT !.pc = "returned", !.result = "BackboneUnavailable"]
    /\ UNCHANGED <<mainPc, weak, disp, invocations, loopPc, guards, released, checked,
                   commands>>
    /\ UNCHANGED coreVars

\* FileAccessorBridge::get_file: backbone.get_file(id).await returns and the
\* upgraded Arc is dropped. The reader, if any, is the caller's.
BridgeDelegate ==
    /\ call.pc = "upgraded"
    /\ GetFileOutcome = "UnknownFile" => Len(commands) < BackboneChannelCapacity
    /\ commands' = IF GetFileOutcome = "UnknownFile"
                   THEN Append(commands, ReceiveFile(FileId)) ELSE commands
    /\ call' = [call EXCEPT !.pc = "returned", !.result = GetFileOutcome]
    /\ holders' = holders \ {"bridge"}
    /\ UNCHANGED <<mainPc, weak, disp, invocations, loopPc, guards, released, checked>>
    /\ UNCHANGED coreVars

\* backend.distribute_file returns after its get_file call: an error when the
\* accessor gave no reader, Ok or an error of its own otherwise.
DistributeReturn(ok) ==
    /\ disp.pc = "distribute"
    /\ call.pc = "returned"
    /\ call.by = "backend"
    /\ ok => call.result = "Reader"
    /\ invocations' = Append(invocations,
                             Invocation(Backends[disp.idx], disp.cmd, call.result, ok))
    /\ call' = NoCall
    /\ disp' = AfterBackend(disp, ok)
    /\ UNCHANGED <<mainPc, holders, weak, loopPc, guards, released, checked, commands>>
    /\ UNCHANGED coreVars

\* The get_file calls made by a holder of the accessor other than a backend
\* on distribution.
ClientCalls == Cardinality({i \in DOMAIN invocations : invocations[i].backend = 0})

\* A holder of the accessor (it is handed out before the Backbone exists,
\* main.rs:74-77) calls get_file.
ClientGetFile ==
    /\ call.pc = "none"
    /\ ClientCalls < MaxClientCalls
    /\ call' = [pc |-> "calling", by |-> "client", result |-> "none"]
    /\ UNCHANGED <<mainPc, holders, weak, disp, invocations, loopPc, guards, released,
                   checked, commands>>
    /\ UNCHANGED coreVars

\* The holder's get_file call returns.
ClientReturn ==
    /\ call.pc = "returned"
    /\ call.by = "client"
    /\ invocations' = Append(invocations,
                             Invocation(0, ReceiveFile(FileId), call.result, TRUE))
    /\ call' = NoCall
    /\ UNCHANGED <<mainPc, holders, weak, disp, loopPc, guards, released, checked,
                   commands>>
    /\ UNCHANGED coreVars

Main ==
    \/ MainNewBackbone
    \/ MainSetBackbone
    \/ MainAppState
    \/ MainServersStopped
    \/ MainShutDownBackbone
    \/ MainRendezvous

HandleEvents ==
    \/ HandleEventsRecv
    \/ HandleEventsExit
    \/ DistributeRejected
    \/ DistributeGetFile
    \/ \E ok \in BOOLEAN : DistributeReturn(ok)

Bridge ==
    \/ BridgeGetBackbone
    \/ BridgeDelegate

\* main from Backbone::new to the end of the rendezvous, with one upload
\* served in between, the record's lifecycle task, the command loop and the
\* dispatcher calling the backends.
NextMain ==
    \/ Main
    \/ mainPc = "serving" /\ UploadPlain
    \/ Lifetime
    \/ loopPc = "running" /\ CommandLoop
    \/ CommandLoopExit
    \/ HandleEvents
    \/ Bridge

SpecMain == InitMain /\ [][NextMain]_vars

\* SpecMain with the scheduling of the runtime: the spawned tasks (the
\* record's lifecycle task, whose sleep ends, the command loop, the
\* dispatcher), an accessor call in flight and main's wait each take their
\* next step when it stays possible. Requests, and what a backend decides to
\* do, are not forced; a backend's call that has started does return.
FairMain ==
    /\ SpecMain
    /\ WF_vars(Lifetime)
    /\ WF_vars(loopPc = "running" /\ CommandLoop)
    /\ WF_vars(CommandLoopExit)
    /\ WF_vars(HandleEvents)
    /\ WF_vars(Bridge)
    /\ WF_vars(MainRendezvous)

\* SpecMain with a further holder of the accessor calling get_file at any
\* moment.
NextBridge ==
    \/ NextMain
    \/ ClientGetFile
    \/ ClientReturn

SpecBridge == InitMain /\ [][NextBridge]_vars

\* ------------------- the registry lock and the backbone channel (SpecLock)

\* An identifier no upload was given.
OtherId == 2

\* How many get_file calls for an unregistered id other clients complete in
\* a row (SpecLock): with one command waiting they fill the backbone channel,
\* or all but one slot of it.
LockBursts == {BackboneChannelCapacity - 2, BackboneChannelCapacity - 1}

\* The get_file calls that hold the read lock of the registry.
ReadLockHolders == {r \in Readers : rd[r].st = "sending"}

\* Backbone::get_file(OtherId): self.inner.read().await is granted, the lookup
\* finds no record. tokio's RwLock is fair: a read is not granted while a
\* writer waits. The read guard lives to the end of the function.
GetFileLock(r) ==
    /\ rd[r].st = "unopened"
    /\ loopPc # "write_lock"
    /\ rd' = [rd EXCEPT ![r] = [NewReader EXCEPT !.st = "sending"]]
    /\ UNCHANGED <<disk, state, wakers, writer, offered, guard, fw, yeet, channel, rec,
                   open, commands, backendQueue, dispatched, now, second, handles>>
    /\ UNCHANGED shutVars

\* Backbone::get_file(OtherId): self.sender.send(ReceiveFile(id, tx)).await
\* returns once the channel has room; UnknownFile is returned and the read
\* guard dropped.
GetFileSend(r) ==
    /\ rd[r].st = "sending"
    /\ Len(commands) < BackboneChannelCapacity
    /\ commands' = Append(commands, ReceiveFile(OtherId))
    /\ rd' = [rd EXCEPT ![r] = [NewReader EXCEPT !.st = "unknown"]]
    /\ UNCHANGED <<disk, state, wakers, writer, offered, guard, fw, yeet, channel, rec,
                   open, backendQueue, dispatched, now, second, handles>>
    /\ UNCHANGED shutVars

\* k get_file(OtherId) calls of other clients, one after another, each from
\* its read lock to its return with UnknownFile.
GetFileBurst(k) ==
    /\ loopPc # "write_lock"
    /\ Len(commands) + k <= BackboneChannelCapacity
    /\ commands' = commands \o [i \in 1 .. k |-> ReceiveFile(OtherId)]
    /\ UNCHANGED <<disk, state, wakers, writer, offered, rd, guard, fw, yeet, channel,
                   rec, open, backendQueue, dispatched, now, second, handles>>
    /\ UNCHANGED shutVars

\* command_loop: channel.recv() yields ReadyForDistribution or ReceiveFile,
\* which frees a slot of the channel; the loop goes on to send to the
\* dispatcher.
LoopTake ==
    /\ loopPc = "running"
    /\ commands # <<>>
    /\ Head(commands).cmd \in {"ReadyForDistribution", "ReceiveFile"}
    /\ commands' = Tail(commands)
    /\ loopCmd' = Head(commands)
    /\ loopPc' = "sending"
    /\ UNCHANGED <<mainPc, holders, weak, call, disp, invocations, host, guards, released,
                   checked>>
    /\ UNCHANGED <<disk, state, wakers, writer, offered, rd, guard, fw, yeet, channel,
                   rec, open, backendQueue, dispatched, now, second, handles>>

\* command_loop: backend_sender.send(..).await returns once the dispatcher's
\* channel has room: DistributeFile for ReadyForDistribution, ReceiveFile as
\* it came.
LoopSend ==
    /\ loopPc = "sending"
    /\ Len(backendQueue) < EventBufferSize
    /\ backendQueue' = Append(backendQueue,
                              IF loopCmd.cmd = "ReadyForDistribution"
                              THEN DistributeFile(loopCmd.id, loopCmd.summary)
                              ELSE loopCmd)
    /\ loopCmd' = NoCommand
    /\ loopPc' = "running"
    /\ UNCHANGED <<mainPc, holders, weak, call, disp, invocations, host, guards, released,
                   checked>>
    /\ UNCHANGED <<disk, state, wakers, writer, offered, rd, guard, fw, yeet, channel,
                   rec, open, commands, dispatched, now, second, handles>>

\* command_loop: channel.recv() yields RemoveWriter(id), which frees a slot
\* of the channel; the loop asks for the write lock of the registry.
LoopTakeRemoveWriter ==
    /\ loopPc = "running"
    /\ commands # <<>>
    /\ Head(commands).cmd = "RemoveWriter"
    /\ commands' = Tail(commands)
    /\ loopPc' = "write_lock"
    /\ UNCHANGED <<mainPc, holders, weak, call, disp, invocations, loopCmd, host, guards,
                   released, checked>>
    /\ UNCHANGED <<disk, state, wakers, writer, offered, rd, guard, fw, yeet, channel,
                   rec, open, backendQueue, dispatched, now, second, handles>>

\* command_loop: inner.write().await is granted when no read guard is left;
\* the record leaves the registry and is dropped.
LoopRemoveWriter ==
    /\ loopPc = "write_lock"
    /\ ReadLockHolders = {}
    /\ open' = open \ {FileId}
    /\ rec' = [rec EXCEPT !.file = FALSE]
    /\ loopPc' = "running"
    /\ UNCHANGED <<mainPc, holders, weak, call, disp, invocations, loopCmd, host, guards,
                   released, checked>>
    /\ UNCHANGED <<disk, state, wakers, writer, offered, rd, guard, fw, yeet, channel,
                   commands, backendQueue, dispatched, now, second, handles>>

\* An upload that is cancelled at once, its record's lifecycle task, the
\* command loop with the registry's lock, and get_file calls for an id that
\* is not registered; the dispatcher is busy and receives nothing.
NextLock ==
    \/ NewFile(None, None)
    \/ YeetCancel
    \/ LifetimeAwait
    \/ LifetimeCloseFile
    \/ LifetimeRemoveWriter
    \/ LoopTakeRemoveWriter
    \/ LoopRemoveWriter
    \/ LoopTake
    \/ LoopSend
    \/ \E r \in Readers : GetFileLock(r)
    \/ \E r \in Readers : GetFileSend(r)
    \/ \E k \in LockBursts : GetFileBurst(k)

SpecLock == Init /\ [][NextLock]_vars

\* ------------------------- the two loops and their channels (SpecCycle)

\* How many get_file calls for an unregistered id other clients complete in
\* a row (SpecCycle): two bursts are what the backbone channel, the
\* dispatcher's channel and the command loop hold together, so the second fits
\* once the first has filled the dispatcher's channel.
CycleBursts ==
    {(BackboneChannelCapacity + EventBufferSize + 1) \div 2,
     (BackboneChannelCapacity + EventBufferSize + 1) \div 2 + 1}

\* An upload of an empty body that is finalized, its record's lifecycle
\* task, the command loop sending on to the dispatcher, the dispatcher
\* receiving the DistributeFile and calling the backends, a backend asking the
\* accessor for the file, and get_file calls for an id that is not registered.
NextCycle ==
    \/ NewFile(None, None)
    \/ StreamEnd
    \/ \E sync \in BOOLEAN : \E syncOk \in BOOLEAN : YeetFinalize(sync, syncOk)
    \/ Lifetime
    \/ LoopTake
    \/ LoopSend
    \/ loopPc = "running" /\ BackboneRemoveWriter
    \/ backendQueue # <<>> /\ Head(backendQueue).cmd = "DistributeFile" /\ HandleEventsRecv
    \/ DistributeGetFile
    \/ \E ok \in BOOLEAN : DistributeReturn(ok)
    \/ Bridge
    \/ \E k \in CycleBursts : GetFileBurst(k)

SpecCycle == Init /\ [][NextCycle]_vars

\* --------------------------- the same id admitted again (SpecAgain)

\* Backbone::new_file, vacant entry, for a request that presents the id of a
\* record that was removed, the earlier request being over: a new file, its
\* writer, a new record with its lifecycle task and one-shot channel, a new
\* guard. The readers of the earlier file keep it.
NewFileAgain ==
    /\ second = "none"
    /\ yeet.pc = "done"
    /\ rec.pc = "done"
    /\ FileId \notin open
    /\ second' = "Ok"
    /\ disk' = <<>>
    /\ state' = Pending(0)
    /\ wakers' = {}
    /\ writer' = "live"
    /\ offered' = 0
    /\ channel' = <<>>
    /\ open' = open \cup {FileId}
    /\ rec' = [file |-> TRUE, summary |-> NoSummary, pc |-> "await_writer",
               result |-> NoSummary, created |-> now, sleep_until |-> 0]
    /\ fw' = NoWriter
    /\ guard' = NewGuard(TEMPORAL_LEASE, None, None)
    /\ yeet' = [NoYeet EXCEPT !.pc = "stream"]
    /\ UNCHANGED <<rd, commands, backendQueue, dispatched, now, handles>>
    /\ UNCHANGED shutVars

\* The program with uploads that carry no headers, get_file requests whose
\* readers are left unread, and a second upload that is given the id of the
\* first after the first's record was removed. What the command loop sends
\* on stays in the dispatcher's channel.
NextAgain ==
    \/ UploadPlain
    \/ Lifetime
    \/ CommandLoop
    \/ \E r \in PolledReaders : GetFile(r)
    \/ NewFileAgain

SpecAgain == Init /\ [][NextAgain]_vars

\* ------------------------------------------- hosting and shutdown (SpecHost)

\* Everything but the hosting.
hostRest == <<disk, state, wakers, writer, offered, rd, guard, fw, yeet, channel, rec,
              open, commands, backendQueue, dispatched, now, second, handles, mainPc,
              holders, weak, call, disp, invocations, loopPc, loopCmd, guards, released,
              checked>>

\* broadcast::Sender::send: every receiver that exists gets the value; with
\* none the send fails, and every caller ignores that (`.ok()`).
Deliver(rx) == IF rx.sub THEN [rx EXCEPT !.sig = TRUE] ELSE rx
Send(h) ==
    [h EXCEPT !.rx = Deliver(@),
              !.accept = [l \in Listeners |-> [@[l] EXCEPT !.rx = Deliver(@)]],
              !.handlers = [c \in Conns |-> [@[c] EXCEPT !.rx = Deliver(@)]]]

\* Dropping the futures of the accept loops: a loop that has not returned
\* is cancelled where it stands; its receiver and its guard are dropped.
DropListeners(h) ==
    [h EXCEPT !.accept = [l \in Listeners |->
                             IF @[l].pc \in {"none", "done"} THEN @[l]
                             ELSE [pc |-> "dropped", rx |-> NoReceiver, conn |-> 0]],
              !.guards = @ \ {<<"accept", l>> : l \in Listeners}]

\* host_on_addresses: TcpListener::bind succeeds for the next address; the
\* future of its accept loop is created with a fork of the guard. The body of
\* the loop, its subscription included, runs when the future is first polled.
HostOnAddressesBind ==
    /\ host.pc = "bind"
    /\ host.bound < NumListeners
    /\ host' = [host EXCEPT !.bound = @ + 1,
                            !.accept[host.bound + 1].pc = "created",
                            !.guards = @ \cup {<<"accept", host.bound + 1>>}]
    /\ UNCHANGED hostRest

\* host_on_addresses: a bind fails; the guard is completed, the futures made
\* so far are dropped, serve_requests returns the error and main goes on to
\* stop_all_servers.
HostOnAddressesBindError ==
    /\ host.pc = "bind"
    /\ host.bound < NumListeners
    /\ host' = [DropListeners(host) EXCEPT !.pc = "stop_all",
                                           !.guards = @ \ {<<"host", 0>>}]
    /\ UNCHANGED hostRest

\* host_on_addresses returns the accept loops, its guard completed;
\* serve_requests subscribes and waits in its select.
HostOnAddressesReturn ==
    /\ host.pc = "bind"
    /\ host.bound = NumListeners
    /\ host' = [host EXCEPT !.pc = "select", !.rx = Subscribe,
                            !.guards = @ \ {<<"host", 0>>}]
    /\ UNCHANGED hostRest

\* The shutdown signal from outside main: the handler of the OS signal, which
\* is registered before anything is bound, or the /stop endpoint.
ShutdownSignal ==
    /\ host.signals < MaxSignals
    /\ host.pc \in {"bind", "select"}
    /\ host' = [Send(host) EXCEPT !.signals = @ + 1]
    /\ UNCHANGED hostRest

\* listener_accept_loop, first poll (serve_requests polls the loops in its
\* select): stopping_tx.subscribe().
AcceptLoopSubscribe(l) ==
    /\ host.pc = "select"
    /\ host.accept[l].pc = "created"
    /\ host' = [host EXCEPT !.accept[l] = [pc |-> "select", rx |-> Subscribe, conn |-> 0]]
    /\ UNCHANGED hostRest

\* listener_accept_loop: stopping_rx.recv() is ready, which the biased select
\* looks at first; the loop breaks and completes its guard.
AcceptLoopStopping(l) ==
    /\ host.pc = "select"
    /\ host.accept[l].pc = "select"
    /\ host.accept[l].rx.sig
    /\ host' = [host EXCEPT !.accept[l] = [pc |-> "done", rx |-> NoReceiver, conn |-> 0],
                            !.guards = @ \ {<<"accept", l>>}]
    /\ UNCHANGED hostRest

\* listener_accept_loop: no signal in the receiver, listener.accept() yields
\* a connection; the loop awaits the readiness of the service.
AcceptLoopAccept(l, c) ==
    /\ host.pc = "select"
    /\ host.accept[l].pc = "select"
    /\ ~host.accept[l].rx.sig
    /\ host.handlers[c].pc = "none"
    /\ \A k \in Listeners : host.accept[k].conn # c
    /\ host' = [host EXCEPT !.accept[l].pc = "accepted", !.accept[l].conn = c]
    /\ UNCHANGED hostRest

\* listener_accept_loop: the handler is spawned with stop_handle.subscribe()
\* and a fork of the guard; the loop selects again.
AcceptLoopSpawn(l) ==
    /\ host.pc = "select"
    /\ host.accept[l].pc = "accepted"
    /\ LET c == host.accept[l].conn IN
       host' = [host EXCEPT !.accept[l].pc = "select", !.accept[l].conn = 0,
                            !.handlers[c] = [pc |-> "serving", rx |-> Subscribe],
                            !.guards = @ \cup {<<"conn", c>>}]
    /\ UNCHANGED hostRest

\* listener_accept_loop: listener.accept() fails; the loop breaks and
\* completes its guard.
AcceptLoopError(l) ==
    /\ host.pc = "select"
    /\ host.accept[l].pc = "select"
    /\ ~host.accept[l].rx.sig
    /\ host' = [host EXCEPT !.accept[l] = [pc |-> "done", rx |-> NoReceiver, conn |-> 0],
                            !.guards = @ \ {<<"accept", l>>}]
    /\ UNCHANGED hostRest

\* handle_connection: stopping_rx.recv() is ready; the handler leaves the
\* connection and completes its guard.
HandleConnectionStopping(c) ==
    /\ host.handlers[c].pc = "serving"
    /\ host.handlers[c].rx.sig
    /\ host' = [host EXCEPT !.handlers[c] = [pc |-> "done", rx |-> NoReceiver],
                            !.guards = @ \ {<<"conn", c>>}]
    /\ UNCHANGED hostRest

\* handle_connection: serve_connection_with_upgrades returns, the client
\* having closed the connection; the handler completes its guard.
HandleConnectionServed(c) ==
    /\ host.handlers[c].pc = "serving"
    /\ ~host.handlers[c].rx.sig
    /\ host' = [host EXCEPT !.handlers[c] = [pc |-> "done", rx |-> NoReceiver],
                            !.guards = @ \ {<<"conn", c>>}]
    /\ UNCHANGED hostRest

\* serve_requests: its select ends, with the signal in shutdown_rx or with
\* every accept loop returned; the loops are dropped and the signal is sent
\* to the other servers.
ServeRequestsStop ==
    /\ host.pc = "select"
    /\ \/ host.rx.sig
       \/ \A l \in Listeners : host.accept[l].pc = "done"
    /\ host' = [Send(DropListeners(host)) EXCEPT !.pc = "stop_all", !.rx = NoReceiver]
    /\ UNCHANGED hostRest

\* stop_all_servers: the signal is sent once more and main's Sender dropped.
StopAllServers ==
    /\ host.pc = "stop_all"
    /\ host' = [Send(host) EXCEPT !.pc = "rendezvous"]
    /\ UNCHANGED hostRest

\* rendezvous_async: resolves when no guard is outstanding.
RendezvousAsync ==
    /\ host.pc = "rendezvous"
    /\ RendezvousReady(host.guards)
    /\ host' = [host EXCEPT !.pc = "done"]
    /\ UNCHANGED hostRest

ListenerAcceptLoop(l) ==
    \/ AcceptLoopSubscribe(l)
    \/ AcceptLoopStopping(l)
    \/ AcceptLoopSpawn(l)

HostMain ==
    \/ HostOnAddressesBind
    \/ HostOnAddressesReturn
    \/ ServeRequestsStop
    \/ StopAllServers
    \/ RendezvousAsync

NextHost ==
    \/ HostMain
    \/ HostOnAddressesBindError
    \/ ShutdownSignal
    \/ \E l \in Listeners : ListenerAcceptLoop(l)
    \/ \E l \in Listeners : \E c \in Conns : AcceptLoopAccept(l, c)
    \/ \E l \in Listeners : AcceptLoopError(l)
    \/ \E c \in Conns : HandleConnectionStopping(c)
    \/ \E c \in Conns : HandleConnectionServed(c)

\* The service hosted on NumListeners addresses, up to NumConns connections
\* and a shutdown signal at any moment.
SpecHost == Init /\ [][NextHost]_vars

\* main runs, the accept loops run when serve_requests polls them and a
\* handler that has the signal runs. Clients need not connect, nor close a
\* connection; a bind need not fail, nor an accept; no signal need come.
FairHost ==
    /\ SpecHost
    /\ WF_vars(HostMain)
    /\ \A l \in Listeners : WF_vars(ListenerAcceptLoop(l))
    /\ \A c \in Conns : WF_vars(HandleConnectionStopping(c))

\* ------------------------------------------------------------------- claims

\* Every command that reached, or waits to reach, the dispatcher or the
\* command loop.
AllCommands ==
    {commands[i] : i \in DOMAIN commands}
        \cup {backendQueue[i] : i \in DOMAIN backendQueue}
        \cup {dispatched[i] : i \in DOMAIN dispatched}

\* do_yeet ended, and the guard was dropped, without a call of finalize.
DroppedWithoutFinalize ==
    /\ yeet.pc = "done"
    /\ yeet.result \in {"StreamError", "WriteError", "UnexpectedEof", "SyncError",
                        "Cancelled"}

\* C1: the record's one-shot channel receives exactly one WriteResult for an
\* admitted file: never two, and never none once the guard is gone.
C1_ExactlyOneSignal ==
    /\ Len(channel) <= 1
    /\ yeet.pc = "done" => Len(channel) = 1

\* C1 witness: finalize signalled Failed for a length mismatch and the guard's
\* drop ran after it.
C1_Witness ==
    /\ yeet.pc = "done"
    /\ yeet.result = "InvalidFileLength"
    /\ channel = <<WriteFailed>>
    /\ ~guard.live

C3_DigestsMatchDisk ==
    yeet.result = "Created" =>
        /\ yeet.summary.md5 = Md5Of(disk)
        /\ yeet.summary.sha256 = Sha256Of(disk)

\* C4: finalize returns the summary and signals Success(summary) exactly when
\* the underlying finalize succeeded and the declared length and MD5 (if any)
\* agree with the observed count and the computed MD5; otherwise it returns an
\* error and the record receives Failed; a length mismatch is reported before
\* an MD5 mismatch.
C4_FinalizeOutcome ==
    [][(yeet.pc = "finalize" /\ yeet'.pc = "done" /\ yeet'.result # "Cancelled") =>
        LET finOk == ~yeet'.sync_failed /\ state.tag # "Failed"
            lenOk == guard.expected_size.some => guard.expected_size.v = guard.file_size
            md5Ok == guard.expected_content_md5.some =>
                        guard.expected_content_md5.v = Md5Of(fw.md5)
        IN  /\ yeet'.result = "Created" <=> (finOk /\ lenOk /\ md5Ok)
            /\ yeet'.result = "Created" =>
                  /\ yeet'.summary = Summary(fw, now, guard.expiration)
                  /\ channel' = <<Success(yeet'.summary)>>
            /\ yeet'.result # "Created" =>
                  /\ yeet'.summary = NoSummary
                  /\ channel' = <<WriteFailed>>
            /\ (finOk /\ ~lenOk) => yeet'.result = "InvalidFileLength"
            /\ (finOk /\ lenOk /\ ~md5Ok) => yeet'.result = "IntegrityCheckFailed"
            /\ ~finOk => yeet'.result = "FileSyncFailed"]_vars

\* C4 witness: finalize succeeded with both headers declared and matching.
C4_Witness ==
    /\ yeet.result = "Created"
    /\ guard.expected_size.some
    /\ guard.expected_content_md5.some
    /\ Len(disk) > 0

\* C4 witness of the failing side: both the length and the MD5 disagreed.
C4_WitnessBothDisagree ==
    /\ yeet.result = "InvalidFileLength"
    /\ guard.expected_content_md5.some
    /\ guard.expected_content_md5.v # Md5Of(disk)

\* C5 (as claimed): with a declared content length L, the bytes beyond L of an
\* overrunning write never reach the backing file.
C5_NoBytesBeyondDeclared ==
    (yeet.result = "UnexpectedEof" /\ guard.expected_size.some) =>
        Len(disk) <= guard.expected_size.v

\* C6 (as claimed): a summary held by the record or carried by a reader means
\* the file is Completed(n) with n = summary.file_size_bytes.
C6_SummaryMatchesCompleted ==
    /\ rec.summary.some =>
          state = Completed(rec.summary.file_size_bytes)
    /\ \A r \in Readers : rd[r].summary.some =>
          state = Completed(rd[r].summary.file_size_bytes)

\* C7 (as claimed): a reader of a successfully finalized file that reached
\* end-of-stream received exactly the finalized content, all final_size bytes.
C7_ReaderGetsFinalContent ==
    \A r \in Readers :
        (writer = "completed" /\ state.tag = "Completed" /\ rd[r].st = "eof") =>
            rd[r].got = SubSeq(disk, 1, state.n)

\* C8 (as claimed): no reader is given end-of-stream while the file is Pending.
C8_NoEofWhilePending ==
    [][\A r \in Readers :
        (rd[r].st # "eof" /\ rd'[r].st = "eof") => state.tag # "Pending"]_vars

\* C9: what a reader has received is always a prefix of what the writer has
\* written, and written bytes never change or disappear.
C9_ReadersSeePrefix ==
    /\ [](\A r \in Readers : IsPrefix(rd[r].got, disk))
    /\ [][IsPrefix(disk, disk')]_vars

\* C9 witness: a reader is in the middle of a file that is still being written.
C9_Witness ==
    \E r \in Readers :
        /\ rd[r].got # <<>>
        /\ Len(rd[r].got) < Len(disk)
        /\ state.tag = "Pending"

\* C10 (as claimed): once the state is Completed(n) the backing file holds
\* exactly n bytes, so a read at an offset >= n finds end-of-stream.
C10_CompletedFileIsExact ==
    state.tag = "Completed" => Len(disk) = state.n

\* C11 (as claimed): the state only moves Pending(k) -> Pending(k' >= k),
\* Pending -> Completed or Pending -> Failed; Completed and Failed are final.
C11_MonotonicState ==
    [][/\ (state.tag = "Pending" /\ state'.tag = "Pending") => state'.n >= state.n
       /\ state.tag = "Completed" => state' = state
       /\ state.tag = "Failed" => state' = state]_vars

\* C12 (as claimed): a get_file issued at or after created + lease yields
\* FileExpired or UnknownFile, never a reader.
C12_ExpiredAfterCreationPlusLease ==
    [][\A r \in Readers :
        (/\ rd[r].st = "unopened" /\ rd'[r].st # "unopened"
         /\ rec.pc # "none"
         /\ now >= ExpirationDate(rec.created, TEMPORAL_LEASE))
            => rd'[r].st \in {"expired", "unknown"}]_vars

\* The ReadyForDistribution commands sent so far, as they are or as the
\* DistributeFile commands the command loop made of them.
ReadySent ==
    {c \in AllCommands : c.cmd \in {"ReadyForDistribution", "DistributeFile"}}

\* C13: ReadyForDistribution(id, summary) is sent when the summary is stored in
\* the record and the lease's sleep has not started, it carries the stored
\* summary, the sleep starts no earlier than the send, and a successful
\* finalize leads to the command being sent.
C13_ReadyAfterPublishBeforeLease ==
    /\ [](\A c \in ReadySent :
            /\ c.id = FileId
            /\ rec.summary.some
            /\ c.summary = rec.summary)
    /\ [](rec.pc = "lease" => ReadySent # {})
    /\ [][(ReadySent = {} /\ ReadySent' # {}) =>
            /\ rec.pc = "notify"
            /\ rec.summary.some
            /\ rec'.sleep_until = now + TEMPORAL_LEASE]_vars
    /\ (yeet.result = "Created" ~> ReadySent # {})

\* C13 witness: the command waits in the backbone channel, the summary is
\* stored and the lease's sleep has just started.
C13_Witness ==
    /\ rec.pc = "lease"
    /\ rec.summary.some
    /\ commands # <<>>
    /\ Head(commands) = ReadyForDistribution(FileId, rec.summary)
    /\ Len(disk) > 0

\* C14 (as claimed): when the lease of a successfully finalized file has
\* expired, the dispatcher has received a DistributeFile(id, summary) for it.
C14_DistributedBeforeLeaseEnds ==
    (yeet.result = "Created" /\ rec.pc \in {"remove_writer", "done"}) =>
        \E i \in DOMAIN dispatched : dispatched[i] = DistributeFile(FileId, yeet.summary)

C16_ReaderCarriesSummary ==
    [][\A r \in Readers :
        (yeet.result = "Created" /\ rd[r].st = "unopened" /\ rd'[r].st = "idle")
            => rd'[r].summary = yeet.summary]_vars

\* C17 (as claimed): a writer handle that goes away while the state is
\* Pending, no finalize having succeeded, leaves the state Failed.
C17_DropWhilePendingFails ==
    [][(writer = "live" /\ writer' = "gone" /\ state.tag = "Pending")
            => state'.tag = "Failed"]_vars

\* C18 (as claimed): a read of a Failed file never completes successfully,
\* neither with bytes nor with end-of-stream.
C18_ReadOfFailedFileFails ==
    [][\A r \in Readers :
        (state.tag = "Failed" /\ rd[r].st = "busy")
            => rd'[r].st \notin {"idle", "eof"}]_vars

\* C20 (as claimed): a write of a non-empty buffer on a Completed or Failed
\* file fails with BrokenPipe and leaves the state and the file as they were.
C20_WriteAfterCloseRejected ==
    [][(state.tag \in {"Completed", "Failed"} /\ offered' > offered) =>
        /\ disk' = disk
        /\ state' = state
        /\ \A n \in 1 .. (offered' - offered) :
              HandlePollWriteResult(state, [ok |-> TRUE, n |-> n]).err = "BrokenPipe"]_vars

\* C19 (as claimed): while a writer is live no further write handle exists.
C19_AtMostOneWriter ==
    writer = "live" => handles.live = 0

\* C19 (amended): writer() makes no exclusivity check: every call, also one
\* made while a writer is live, returns a further write handle.
C19_WriterAlwaysGranted ==
    [][handles'.calls > handles.calls => handles'.live = handles.live + 1]_vars

\* C19 witness: two writers of the same file are live, after a write.
C19_Witness ==
    /\ writer = "live"
    /\ handles.live > 0
    /\ Len(disk) > 0

\* C21 (as claimed): every step in which the writer writes bytes, finalizes,
\* fails or goes away leaves the wake set empty, every waker having been fired.
C21_WakeSetDrainedOnEvents ==
    [][(disk' # disk \/ state'.tag # state.tag \/ writer' # writer) => wakers' = {}]_vars

\* C22: the wake set holds only readers that are live and suspended in a read,
\* one entry a reader, so never more entries than live readers; a reader that
\* resumes or is dropped is not in the set afterwards.
C22_WakeSetOnlySuspendedReaders ==
    /\ \A r \in wakers : rd[r].st = "busy"
    /\ wakers \subseteq LiveReaders
    /\ Cardinality(wakers) <= Cardinality(LiveReaders)

\* C22 witness: one reader was dropped and another one, suspended in a read of
\* a file that has bytes, has its waker registered.
C22_Witness ==
    /\ \E r \in Readers : rd[r].st = "closed"
    /\ \E r \in Readers : r \in wakers /\ rd[r].st = "busy" /\ rd[r].pos > 0
    /\ Cardinality(wakers) = Cardinality(LiveReaders)

C25_SummaryExpiresAtCreationPlusLease ==
    /\ yeet.result = "Created" =>
          yeet.summary.expires = ExpirationDate(rec.created, TEMPORAL_LEASE)
    /\ \A r \in Readers : rd[r].summary.some =>
          rd[r].summary.expires = ExpirationDate(rec.created, TEMPORAL_LEASE)

\* RemoveWriter has been processed: the record has left the registry.
RecordGone == rec.pc = "done" /\ FileId \notin open

\* C23: removing the record changes nothing for the readers and the file; a
\* reader that is live after the removal keeps the backing file, is never
\* failed, receives in each read the bytes that follow its position, and is
\* given end-of-stream only when it has received the whole file, which after a
\* successful upload is the final size.
C23_ReadersOutliveRecord ==
    /\ [][(FileId \in open /\ FileId \notin open') =>
            UNCHANGED <<rd, disk, state, wakers>>]_vars
    /\ [](RecordGone =>
            /\ LiveReaders # {} => BackingFile = disk
            /\ yeet.result = "Created" => state = Completed(Len(disk)))
    /\ [][RecordGone =>
            /\ disk' = disk
            /\ \A r \in Readers : rd[r].st \in {"idle", "busy"} =>
                  /\ rd'[r].st \in {"idle", "busy", "eof", "closed"}
                  /\ rd'[r].st = "idle" => IsPrefix(rd'[r].got, disk)
                  /\ (rd[r].st = "busy" /\ rd'[r].st = "idle") =>
                        Len(rd'[r].got) > Len(rd[r].got)
                  /\ rd'[r].st = "eof" => rd'[r].got = disk]_vars

\* C23 witness: after a successful upload the record is gone, and a reader
\* obtained before is in the middle of the file with a read in flight, while
\* another one has not begun to read.
C23_Witness ==
    /\ RecordGone
    /\ yeet.result = "Created"
    /\ Len(disk) = MaxBody
    /\ \E r \in Readers : rd[r].st = "busy" /\ rd[r].pos > 0 /\ rd[r].pos < Len(disk)
    /\ \E r \in Readers : rd[r].st = "idle" /\ rd[r].pos = 0

\* C30 (as claimed): every change of the registry is made by the command loop,
\* in a step that takes a command from the backbone channel.
C30_RegistryChangedOnlyByLoop ==
    [][open' # open => (commands # <<>> /\ commands' = Tail(commands))]_vars

\* C30 (amended): an entry is removed only by the command loop, when it takes
\* RemoveWriter(id) from the channel; an entry is inserted only by new_file
\* itself, in the step that returns the guard to the request; get_file, the
\* lifecycle task and the dispatcher never change the registry.
C30_InsertByNewFileRemoveByLoop ==
    [][open' # open =>
        \/ /\ open' = open \cup {FileId}
           /\ yeet.pc = "new_file" /\ yeet'.pc = "stream"
           /\ guard'.live
           /\ commands' = commands
        \/ /\ commands # <<>>
           /\ Head(commands) = RemoveWriter(FileId)
           /\ commands' = Tail(commands)
           /\ open' = open \ {FileId}
           /\ rec.pc = "done"]_vars

\* C30 witness: the entry was inserted by new_file and, after a successful
\* upload and the lease, removed by the command loop, while get_file requests
\* were served before and after the removal.
C30_Witness ==
    /\ yeet.result = "Created"
    /\ RecordGone
    /\ commands = <<>>
    /\ \E r \in Readers : rd[r].st = "idle"
    /\ \E r \in Readers : rd[r].st = "unknown"

\* The DistributeFile commands the dispatcher received, in order.
Distributed == SelectSeq(dispatched, LAMBDA c : c.cmd = "DistributeFile")

\* The dispatcher takes a step of its loop, or of a backend's call.
DispatcherStep == disp' # disp \/ invocations' # invocations \/ call' # call

\* C26: for each DistributeFile(id, summary) the dispatcher calls every
\* registered backend once, in registration order, with the command's id and
\* summary; a backend's error stops neither the loop over the backends nor the
\* dispatcher's loop, and no step of the dispatcher changes the upload's result,
\* the record or the registry.
C26_DispatcherInvokesEveryBackend ==
    /\ [](/\ Len(invocations) =
                NumBackends * Len(Distributed)
                  - (IF disp.pc = "distribute" THEN NumBackends - (disp.idx - 1) ELSE 0)
          /\ \A i \in DOMAIN invocations :
                /\ invocations[i].backend = Backends[((i - 1) % NumBackends) + 1]
                /\ invocations[i].id = Distributed[((i - 1) \div NumBackends) + 1].id
                /\ invocations[i].summary =
                      Distributed[((i - 1) \div NumBackends) + 1].summary)
    /\ [][DispatcherStep => (yeet' = yeet /\ rec' = rec /\ open' = open)]_vars
    /\ [][Len(invocations') > Len(invocations) => disp'.pc \in {"recv", "distribute"}]_vars

\* C26 witness: the upload was answered Created, the first backend failed, the
\* last one succeeded, and the dispatcher awaits its next command.
C26_Witness ==
    /\ yeet.result = "Created"
    /\ disp.pc = "recv"
    /\ Len(invocations) = NumBackends
    /\ ~invocations[1].ok
    /\ invocations[NumBackends].ok
    /\ rec.pc # "none"

\* C27: FileAccessorBridge::get_file returns BackboneUnavailable when its Weak
\* cannot be upgraded, that is before set_backbone and after the last strong
\* reference to the Backbone was dropped; otherwise it returns what
\* Backbone::get_file returns for the id: UnknownFile, with a ReceiveFile sent,
\* for an id that is not registered, FileExpired for a record that released its
\* file, and a reader for any other record.
C27_BridgeReturnsBackboneResult ==
    /\ [][(call.pc = "calling" /\ call' # call) =>
            IF weak = "unset" \/ StrongCount = 0
            THEN call'.pc = "returned" /\ call'.result = "BackboneUnavailable"
            ELSE call'.pc = "upgraded"]_vars
    /\ [][(call.pc = "upgraded" /\ call' # call) =>
            /\ call'.pc = "returned"
            /\ FileId \notin open =>
                  /\ call'.result = "UnknownFile"
                  /\ commands' = Append(commands, ReceiveFile(FileId))
            /\ (FileId \in open /\ ~rec.file) =>
                  (call'.result = "FileExpired" /\ commands' = commands)
            /\ (FileId \in open /\ rec.file) =>
                  (call'.result = "Reader" /\ commands' = commands)]_vars
    /\ [][call'.result # call.result => call.result = "none" \/ call' = NoCall]_vars

\* C27 witness: a call made before set_backbone got BackboneUnavailable, a later
\* call of a backend got a reader, and a call after that, made when main had
\* dropped the last strong reference, got BackboneUnavailable again.
C27_Witness ==
    \E i, j, k \in DOMAIN invocations :
        /\ i < j
        /\ j < k
        /\ invocations[i].backend = 0
        /\ invocations[i].accessor = "BackboneUnavailable"
        /\ invocations[j].accessor = "Reader"
        /\ invocations[k].accessor = "BackboneUnavailable"

\* C28 (as claimed): when main checks the Backbone's strong count after the
\* servers stopped, the count is one in every interleaving: no backend,
\* dispatcher task, accessor call in flight or request handler holds a strong
\* reference then.
C28_StrongCountOneAtShutdown == checked # 0 => checked = 1

\* C29: the rendezvous wait completes only when every guard handed out was
\* released, so never while the command loop or the dispatcher loop runs; each
\* loop holds its guard while it runs and releases it once, when it exits.
C29_RendezvousAfterEveryGuard ==
    /\ mainPc = "done" => (guards = {} /\ loopPc = "exited" /\ disp.pc = "exited")
    /\ loopPc = "running" => "backbone" \in guards
    /\ disp.pc # "exited" => "registry" \in guards
    /\ \A g \in GuardOwners : released[g] = (IF g \in guards THEN 0 ELSE released[g])
    /\ released["backbone"] = (IF loopPc = "exited" THEN 1 ELSE 0)
    /\ released["registry"] = (IF disp.pc = "exited" THEN 1 ELSE 0)

\* C29 witness: the rendezvous completed after an upload was distributed to
\* every backend, both loops having exited and released their guards.
C29_Witness ==
    /\ mainPc = "done"
    /\ Len(invocations) = NumBackends
    /\ released["backbone"] = 1
    /\ released["registry"] = 1

\* C31 (as claimed): the InvalidFileLength error of FileWriterGuard::finalize
\* carries the declared content length as `expected` and the observed byte
\* count as `got`.
C31_InvalidFileLengthExpectedGot ==
    yeet.result = "InvalidFileLength" =>
        /\ yeet.detail.expected = guard.expected_size.v
        /\ yeet.detail.got = guard.file_size

\* The lifecycle task took the arm of Failed or of the closed channel.
FailurePath == rec.pc \in {"close_file", "remove_writer", "done"} /\ ~rec.result.some

\* The RemoveWriter commands waiting in the backbone channel.
RemoveWritersQueued ==
    Cardinality({i \in DOMAIN commands : commands[i].cmd = "RemoveWriter"})

\* C32: on Failed, or on a channel closed without a value, the lifecycle task
\* releases the file, then sends one RemoveWriter(id), then ends; it stores no
\* summary, sends no ReadyForDistribution and starts no lease; from the
\* release until RemoveWriter is processed get_file(id) returns FileExpired.
C32_FailurePathReleasesThenRemoves ==
    /\ [][(rec.pc = "await_writer" /\ rec' # rec
             /\ (channel = <<>> \/ channel[1].kind # "Success")) =>
            rec' = [rec EXCEPT !.pc = "close_file"]]_vars
    /\ [](FailurePath =>
            /\ ~rec.summary.some
            /\ rec.sleep_until = 0
            /\ \A i \in DOMAIN commands : commands[i].cmd # "ReadyForDistribution"
            /\ rec.pc = "close_file" => (rec.file /\ FileId \in open)
            /\ rec.pc = "remove_writer" => (~rec.file /\ FileId \in open)
            /\ rec.pc # "done" => RemoveWritersQueued = 0
            /\ rec.pc = "done" =>
                  /\ ~rec.file
                  /\ RemoveWritersQueued = (IF FileId \in open THEN 1 ELSE 0))
    /\ [][(FailurePath /\ ~rec.file /\ FileId \in open) =>
            \A r \in Readers :
                rd'[r].st # rd[r].st => (rd[r].st = "unopened" /\ rd'[r].st = "expired")]_vars

\* C32 witness: the writer reported Failed, the task released the file, sent
\* its RemoveWriter and ended; a get_file that came before the command was
\* processed was answered FileExpired.
C32_Witness ==
    /\ FailurePath
    /\ rec.pc = "done"
    /\ FileId \in open
    /\ RemoveWritersQueued = 1
    /\ \E r \in Readers : rd[r].st = "expired"
    /\ yeet.result \notin {"none", "Created"}

\* C33 (as claimed): no get_file for an unknown id is ever blocked sending
\* ReceiveFile on a full backbone channel, holding the registry's read lock,
\* while the command loop waits for the write lock to process RemoveWriter.
C33_NoGetFileLockedOnFullChannel ==
    ~(/\ loopPc = "write_lock"
      /\ Len(commands) = BackboneChannelCapacity
      /\ ReadLockHolders # {})

\* C34 (as claimed): the command loop is never blocked sending on a full
\* dispatcher channel while the dispatcher is inside a backend's accessor
\* get_file call, for an id no longer registered, that is sending ReceiveFile
\* on a full backbone channel.
C34_NoLoopDispatcherCycle ==
    ~(/\ loopPc = "sending"
      /\ Len(backendQueue) = EventBufferSize
      /\ disp.pc = "distribute"
      /\ call.pc = "upgraded"
      /\ call.by = "backend"
      /\ FileId \notin open
      /\ Len(commands) = BackboneChannelCapacity)

\* The record's one-shot channel carries Failed.
FailedSignalled == channel # <<>> /\ channel[1].kind = "Failed"

\* C35 (as claimed): once Failed was signalled to the record and the writer is
\* gone, the shared file's state is Failed and not Completed, and no reader of
\* the file has received an end-of-stream.
C35_RejectedUploadNeverCompleted ==
    (FailedSignalled /\ writer # "live") =>
        /\ state.tag = "Failed"
        /\ \A r \in Readers : rd[r].st # "eof"

\* C36: a record's lifecycle task sends at most one RemoveWriter(id), as its
\* last step; a RemoveWriter that the command loop processes removes the
\* record whose task sent it, also when the id was admitted again: a queued
\* RemoveWriter belongs to the registered record, whose task has ended.
C36_RemoveWriterRemovesItsOwnRecord ==
    /\ [](RemoveWritersQueued <= 1)
    /\ [](RemoveWritersQueued = 1 => (FileId \in open /\ rec.pc = "done"))
    /\ [][RemoveWritersQueued' > RemoveWritersQueued =>
            (rec.pc = "remove_writer" /\ rec'.pc = "done" /\ RemoveWritersQueued = 0)]_vars
    /\ [][(FileId \in open /\ FileId \notin open') =>
            (rec.pc = "done" /\ Head(commands) = RemoveWriter(FileId)
               /\ commands' = Tail(commands))]_vars

\* C36 witness: the id was admitted a second time after the first record was
\* removed, the second upload was answered Created, and the second record's
\* RemoveWriter is queued while the record is still registered.
C36_Witness ==
    /\ second = "Ok"
    /\ yeet.result = "Created"
    /\ rec.pc = "done"
    /\ FileId \in open
    /\ RemoveWritersQueued = 1

\* C37 (as claimed): while the dispatcher calls the backends for a
\* DistributeFile(id, summary) the record of id is registered and holds its
\* file, and the accessor's get_file(id) of a backend returns neither
\* UnknownFile nor FileExpired.
C37_RecordRegisteredDuringDistribution ==
    /\ disp.pc = "distribute" => (disp.cmd.id \in open /\ rec.file)
    /\ call.by = "backend" => call.result \notin {"UnknownFile", "FileExpired"}

\* C38: once the servers stopped and main dropped its Backbone handle, the
\* requests being over, the record's lifecycle task ends (after its lease
\* sleep, if it is in it), the command loop and the dispatcher loop exit and
\* release their guards, and the rendezvous resolves.
C38_ShutdownCompletes ==
    (mainPc = "rendezvous") ~>
        (/\ mainPc = "done"
         /\ rec.pc \in {"none", "done"}
         /\ loopPc = "exited"
         /\ disp.pc = "exited"
         /\ guards = {})

\* C38 witness: main waits in the rendezvous while the record is in its
\* lease sleep and both loops run.
C38_Witness ==
    /\ mainPc = "rendezvous"
    /\ rec.pc = "lease"
    /\ loopPc = "running"
    /\ disp.pc # "exited"
    /\ guards = GuardOwners

\* C39: the dispatcher loop has exited only if the command loop has, with
\* nothing left in the dispatcher's channel; the command loop has exited
\* only if every handle of the Backbone is dropped and the record's
\* lifecycle task has ended, with nothing left in the backbone channel; so
\* a lifecycle task that is still running finds the command loop running.
C39_LoopsExitInOrder ==
    /\ disp.pc = "exited" => (loopPc = "exited" /\ backendQueue = <<>>)
    /\ loopPc = "exited" =>
           /\ holders = {}
           /\ rec.pc \in {"none", "done"}
           /\ commands = <<>>
    /\ rec.pc \notin {"none", "done"} => loopPc # "exited"

\* C39 witness: both loops exited after an upload whose record went through
\* its whole lifecycle, its RemoveWriter processed.
C39_Witness ==
    /\ disp.pc = "exited"
    /\ loopPc = "exited"
    /\ rec.pc = "done"
    /\ yeet.result = "Created"
    /\ FileId \notin open
    /\ invocations # <<>>

\* C40: once the shutdown signal was sent, every accept loop and every
\* connection handler ends with its guard released, whether or not the
\* client closes the connection: no guard of the hosting stays outstanding.
C40_SignalStopsLoopsAndHandlers ==
    (host.signals > 0) ~> (host.guards = {})

====
